---- MODULE Spec2Model ----
(***************************************************************************)
(* Course service of NestTask: the bulk import pipeline                    *)
(* (bulkImportCourses) over a remote store with a courses table and a      *)
(* teachers table, the schedule codec of the course writers and of         *)
(* mapCourseFromDB, createCourse, the study material operations, and the   *)
(* useAuth hook.  Every store request is asynchronous: one action of the   *)
(* model is the store answering a request together with the synchronous    *)
(* code that runs up to the next request.  Each specification runs one     *)
(* part of the program and leaves the state of the other parts alone.      *)
(***************************************************************************)
EXTENDS Integers, Sequences, FiniteSets, TLC

\* ------------------------------------------------------------------ bounds
MaxBatch == 2
MaxFaults == 1

\* ------------------------------------------------------------------ values
NoVal == "undefined"

Runs == {"run1", "run2"}
SingleRun == {"run1"}

Codes == {"CSE101", "CSE102"}
Sections == {"A"}
SuppliedTeacherIds == {"T-given"}

\* JavaScript truthiness of an optional string
Falsy(v) == v \in {NoVal, ""}

\* case folding of the case-insensitive name filter
Lower(s) == IF s = "Dr. X" THEN "dr. x" ELSE s

ClassTimeLists == {<<[day |-> "Mon", time |-> "10:00", classroom |-> "R1"]>>}

\* NewCourse rows as they arrive from the imported JSON, with the fields the
\* pipeline reads before it inserts.  The section is varied on the rows that
\* give no teacher id; a row that supplies a teacher id also names the
\* teacher; a row may lack classTimes, and as such a row never reaches teacher
\* resolution it is given no teacher reference.
NewCourse ==
    [code : Codes, section : Sections \cup {NoVal}, teacher : {"Dr. X", NoVal},
     teacherId : {NoVal}, classTimes : ClassTimeLists]
    \cup
    [code : Codes, section : Sections, teacher : {"Dr. X"},
     teacherId : SuppliedTeacherIds, classTimes : ClassTimeLists]
    \cup
    [code : Codes, section : Sections, teacher : {NoVal}, teacherId : {NoVal}]

Batches == UNION {[1..n -> NewCourse] : n \in 0..MaxBatch}

\* the value of `user` after supabase.auth.getUser(); a null user reads as
\* undefined through every optional chain
NoUser == [id |-> NoVal, role |-> NoVal, sectionId |-> NoVal]

SessionRoles == {"user", "section_admin", "admin", "super-admin", NoVal}

Sessions ==
    {NoUser} \cup
    {[id |-> "U1", role |-> ro, sectionId |-> IF ro = "section_admin" THEN "A" ELSE NoVal] :
        ro \in SessionRoles}

VARIABLES
    session,        \* the auth user the session provider holds
    courseTable,    \* rows of the courses table
    teacherTable,   \* rows of the teachers table
    calls,          \* requests the session provider and the store received, in order
    faults,         \* requests that have failed so far
    pc,             \* per run: the request the run is waiting on
    courses,        \* per run: the argument of bulkImportCourses
    i,              \* per run: the loop index (1-based row number)
    user,           \* per run: the user getUser returned
    userRole,       \* per run: user?.user_metadata?.role
    teacherId,      \* per run: the row's resolved teacher id
    errors,         \* per run: the outcomes accumulated so far
    successCount    \* per run: the success counter

\* the schedule codec: one class-time list written by a course writer and read
\* back by mapCourseFromDB
VARIABLES
    classTimes,     \* the class-time entries handed to the writer
    writer,         \* the writer that formatted them
    class_time,     \* the class_time column the writer produced
    decoded         \* the classTimes mapCourseFromDB read from the column

codecVars == <<classTimes, writer, class_time, decoded>>

\* the session provider, the store and the log of the requests they received
envVars == <<session, courseTable, teacherTable, calls, faults>>

\* the locals of the bulk import runs
importVars == <<pc, courses, i, user, userRole, teacherId, errors, successCount>>

\* one call of createCourse
VARIABLES
    createPc,       \* the request the call is waiting on, or how it ended
    newCourse,      \* the argument of createCourse
    created,        \* the course createCourse returned
    createError     \* the message of the error createCourse threw

createVars == <<createPc, newCourse, created, createError>>

\* the study materials of the store and the last call on them
VARIABLES
    materialTable,      \* study_materials, in the order of creation
    materialOp,         \* the function called last
    returnedMaterials,  \* the StudyMaterial objects that call returned
    materialError       \* the message of the error that call threw

materialVars == <<materialTable, materialOp, returnedMaterials, materialError>>

\* the useAuth hook, the accounts it signs in and the browser's local storage
VARIABLES
    authUsers,      \* auth.users: id and user_metadata of the accounts
    usersTable,     \* public.users: id and role of the accounts' rows
    hookUser,       \* useState: user
    loading,        \* useState: loading
    authError,      \* useState: error
    localStorage,   \* nesttask_remember_me and nesttask_saved_email
    tasks,          \* the calls of the hook's functions that wait on an await
    lastQuery,      \* the users query answered last, and its answer
    lastLogin       \* the arguments of the latest call of login

authVars == <<authUsers, usersTable, hookUser, loading, authError, localStorage,
              tasks, lastQuery, lastLogin>>

\* one AdminDashboard
VARIABLES
    props,          \* users, tasks, isSectionAdmin, sectionId as the parent gave them
    rendered,       \* the component has rendered with these props
    filteredTasks   \* the value of the useMemo of that render

dashboardVars == <<props, rendered, filteredTasks>>

\* the state outside the bulk import and the store
otherVars == <<codecVars, createVars, materialVars, authVars, dashboardVars>>

\* the state the codec actions leave alone
outsideCodec == <<envVars, importVars, createVars, materialVars, authVars, dashboardVars>>

\* the state createCourse leaves alone
outsideCreate == <<teacherTable, importVars, codecVars, materialVars, authVars,
                   dashboardVars>>

\* the state the study material functions leave alone
outsideMaterial == <<envVars, importVars, codecVars, createVars, authVars, dashboardVars>>

\* the state the hook leaves alone
outsideAuth == <<courseTable, teacherTable, calls, faults, importVars, codecVars,
                 createVars, materialVars, dashboardVars>>

\* the state the dashboard leaves alone
outsideDashboard == <<envVars, importVars, codecVars, createVars, materialVars, authVars>>

vars == <<session, courseTable, teacherTable, calls, faults,
          pc, courses, i, user, userRole, teacherId, errors, successCount, otherVars>>

storeVars == <<courseTable, teacherTable>>

\* ------------------------------------------------------------------ schedule encoding
\* an optional property of an object: undefined when the object lacks it
Prop(obj, name) == IF name \in DOMAIN obj THEN obj[name] ELSE NoVal

FormatClassTime(ct) ==
    ct.day \o " at " \o ct.time \o
    (IF ~Falsy(Prop(ct, "classroom")) THEN " in " \o ct.classroom ELSE "")

RECURSIVE JoinClassTimes(_)
JoinClassTimes(cts) ==
    IF cts = <<>> THEN ""
    ELSE IF Len(cts) = 1 THEN FormatClassTime(cts[1])
    ELSE FormatClassTime(cts[1]) \o ", " \o JoinClassTimes(Tail(cts))

\* course.classTimes.map(...) raises a TypeError on a row without classTimes
EncodingThrows(course) == "classTimes" \notin DOMAIN course

formattedClassTimes(course) == JoinClassTimes(course.classTimes)

\* Array.prototype.join
RECURSIVE Join(_, _)
Join(strs, sep) ==
    IF strs = <<>> THEN ""
    ELSE IF Len(strs) = 1 THEN strs[1]
    ELSE strs[1] \o sep \o Join(Tail(strs), sep)

\* createCourse: ct => `${ct.day} at ${ct.time}${ct.classroom ? ` in ${ct.classroom}` : ''}`
createCourseFormat(ct) ==
    ct.day \o " at " \o ct.time \o
    (IF ~Falsy(Prop(ct, "classroom")) THEN " in " \o ct.classroom ELSE "")

\* createCourse: course.classTimes.map(...).join(', ')
createCourseEncoding(course) ==
    Join([k \in 1..Len(course.classTimes) |-> createCourseFormat(course.classTimes[k])], ", ")

\* the classroom left out of the rendering
updateCourseFormatNoClassroom(ct) == ct.day \o " at " \o ct.time

\* updateCourse: ct => `${ct.day} at ${ct.time}${ct.classroom ? ` in ${ct.classroom}` : ''}`
updateCourseFormat(ct) ==
    ct.day \o " at " \o ct.time \o
    (IF ~Falsy(Prop(ct, "classroom")) THEN " in " \o ct.classroom ELSE "")

\* updateCourse: updates.classTimes ? updates.classTimes.map(...).join(', ') : undefined
updateCourseEncoding(updates) ==
    IF "classTimes" \in DOMAIN updates
    THEN Join([k \in 1..Len(updates.classTimes) |-> updateCourseFormat(updates.classTimes[k])],
              ", ")
    ELSE NoVal

\* ------------------------------------------------------------------ schedule decoding
\* String.prototype.includes
Includes(str, sub) ==
    \E k \in 1..(Len(str) - Len(sub) + 1) : SubSeq(str, k, k + Len(sub) - 1) = sub

\* String.prototype.indexOf, 1-based, 0 when absent
IndexOf(str, sub) ==
    IF Includes(str, sub)
    THEN CHOOSE k \in 1..(Len(str) - Len(sub) + 1) :
            /\ SubSeq(str, k, k + Len(sub) - 1) = sub
            /\ \A j \in 1..(k - 1) : SubSeq(str, j, j + Len(sub) - 1) # sub
    ELSE 0

\* String.prototype.split with a non-empty separator
RECURSIVE Split(_, _)
Split(str, sep) ==
    LET k == IndexOf(str, sep)
    IN  IF k = 0 THEN <<str>>
        ELSE <<SubSeq(str, 1, k - 1)>> \o Split(SubSeq(str, k + Len(sep), Len(str)), sep)

\* array destructuring: a missing element reads as undefined
Nth(arr, n) == IF n <= Len(arr) THEN arr[n] ELSE NoVal

\* the fragment always read as "day at time"
ParseClassTimeNoClassroom(timeStr) ==
    LET dayTime == Split(timeStr, " at ")
    IN  [day |-> Nth(dayTime, 1), time |-> Nth(dayTime, 2)]

\* mapCourseFromDB: the callback of .map((timeStr) => ...)
ParseClassTime(timeStr) ==
    IF Includes(timeStr, " in ")
    THEN LET parts == Split(timeStr, " in ")
             dayTime == Split(Nth(parts, 1), " at ")
         IN  [day |-> Nth(dayTime, 1), time |-> Nth(dayTime, 2), classroom |-> Nth(parts, 2)]
    ELSE LET dayTime == Split(timeStr, " at ")
         IN  [day |-> Nth(dayTime, 1), time |-> Nth(dayTime, 2)]

\* mapCourseFromDB: data.class_time.split(', ').map(...)
ParseClassTimes(str) ==
    LET fragments == Split(str, ", ")
    IN  [k \in 1..Len(fragments) |-> ParseClassTime(fragments[k])]

\* mapCourseFromDB, with the fields of the row this model keeps
mapCourseFromDB(data) ==
    [id |-> data.id, code |-> data.code, teacher |-> data.teacher,
     classTimes |-> ParseClassTimes(data.class_time), section |-> data.section]

\* ------------------------------------------------------------------ store
\* Answers a request can get: a result, a returned error object, or a rejected
\* promise.  Failures are capped by MaxFaults.
Outcomes == IF faults < MaxFaults THEN {"ok", "error", "throw"} ELSE {"ok"}

Call(r, op, row, arg, tid, res, data) ==
    [op |-> op, run |-> r, row |-> row, arg |-> arg, teacher_id |-> tid,
     res |-> res, data |-> data]

Received(c, faulty) ==
    /\ calls' = Append(calls, c)
    /\ faults' = faults + (IF faulty THEN 1 ELSE 0)

\* courses.select('id, code').eq('code', code)
CoursesWithCode(code) == {c \in courseTable : c.code = code}

\* teachers.select('id').ilike('name', name)
TeachersNamed(name) == {t \in teacherTable : Lower(t.name) = Lower(name)}

\* teacher.service: is there a teacher of this name, compared case-insensitively
checkTeacherNameExists(name) == \E t \in teacherTable : Lower(t.name) = Lower(name)

\* the unique constraint of the store on courses.code
UniqueViolation(code) == \E c \in courseTable : c.code = code

NewTeacherId == "T" \o ToString(Cardinality(teacherTable) + 1)
NewCourseId == "C" \o ToString(Cardinality(courseTable) + 1)

\* ------------------------------------------------------------------ outcomes
Outcome(row, code, message, isWarning, isSuccess) ==
    [row |-> row, code |-> code, message |-> message,
     isWarning |-> isWarning, isSuccess |-> isSuccess]

SectionWarning(row, code) ==
    Outcome(row, code, "Section admin must specify a section for the course", TRUE, FALSE)

AlreadyExists(row, code) ==
    Outcome(row, code, "A course with this code already exists", FALSE, FALSE)

RowError(row, code, message) == Outcome(row, code, message, FALSE, FALSE)

TeacherCreated(row, code) == Outcome(row, code, "Created teacher", TRUE, TRUE)

TeacherNotCreated(row, code, message) == Outcome(row, code, message, TRUE, FALSE)

BatchAbort(message) == Outcome(0, NoVal, "Bulk import failed: " \o message, FALSE, FALSE)

\* ------------------------------------------------------------------ control
Resume(r, p, idx, tid, errs, succ) ==
    /\ pc' = [pc EXCEPT ![r] = p]
    /\ i' = [i EXCEPT ![r] = idx]
    /\ teacherId' = [teacherId EXCEPT ![r] = tid]
    /\ errors' = [errors EXCEPT ![r] = errs]
    /\ successCount' = [successCount EXCEPT ![r] = succ]

\* the section check left out
SectionNeverMissing(role, course) == FALSE

\* the section check at the head of the loop body
SectionMissing(role, course) == role = "section_admin" /\ Falsy(course.section)

\* The synchronous part of the loop from row idx on: a row a section admin gave
\* no section is skipped with a warning, a row whose class times cannot be
\* formatted ends in the row's catch; neither sends a request.  The first other
\* row sends the duplicate check.
RECURSIVE LoopHead(_, _, _, _)
LoopHead(cs, role, idx, errs) ==
    IF idx > Len(cs) THEN [i |-> idx, errors |-> errs]
    ELSE IF SectionMissing(role, cs[idx])
    THEN LoopHead(cs, role, idx + 1, Append(errs, SectionWarning(idx, cs[idx].code)))
    ELSE IF EncodingThrows(cs[idx])
    THEN LoopHead(cs, role, idx + 1,
                  Append(errs, RowError(idx, cs[idx].code, "classTimes is undefined")))
    ELSE [i |-> idx, errors |-> errs]

LoopFrom(r, role, idx, errs, succ) ==
    LET nx == LoopHead(courses[r], role, idx, errs)
    IN  Resume(r, IF nx.i > Len(courses[r]) THEN "done" ELSE "selectCourse",
               nx.i, NoVal, nx.errors, succ)

\* `continue`, and the end of the loop body
NextRow(r, errs, succ) == LoopFrom(r, userRole[r], i[r] + 1, errs, succ)

\* the failure thrown on to the caller: the call never returns a report
AbortRethrows(r, message) ==
    Resume(r, "rejected", i[r], teacherId[r], errors[r], successCount[r])

\* the function's catch returning without recording the failure
AbortSilently(r, message) ==
    Resume(r, "done", i[r], teacherId[r], errors[r], successCount[r])

\* the catch around the whole function
Abort(r, message) ==
    Resume(r, "done", i[r], teacherId[r], Append(errors[r], BatchAbort(message)),
           successCount[r])

\* the row's exception thrown out of the loop
RowCatchAborts(r, message) == Abort(r, message)

\* the catch around the loop body
RowCatch(r, message) ==
    NextRow(r, Append(errors[r], RowError(i[r], courses[r][i[r]].code, message)),
            successCount[r])

\* the gate with the role comparison left out
AllowedAnyRole(role) == ~Falsy(role)

Allowed(role) == ~Falsy(role) /\ (role = "admin" \/ role = "section_admin")

\* the permission check and the entry into the loop
Gate(r, usr) ==
    /\ userRole' = [userRole EXCEPT ![r] = usr.role]
    /\ IF Allowed(usr.role)
       THEN LoopFrom(r, usr.role, 1, errors[r], successCount[r])
       ELSE Abort(r, "Permission denied")

Row(r) == courses[r][i[r]]

\* ------------------------------------------------------------------ actions
\* the call, up to the first request
bulkImportCourses(r) ==
    /\ pc[r] = "idle"
    /\ \E cs \in Batches :
        /\ pc' = [pc EXCEPT ![r] = "getUser"]
        /\ courses' = [courses EXCEPT ![r] = cs]
    /\ UNCHANGED <<session, storeVars, calls, faults, i, user, userRole,
                   teacherId, errors, successCount>>
    /\ UNCHANGED otherVars

\* await supabase.auth.getUser()
GetUser(r) ==
    /\ pc[r] = "getUser"
    /\ \E res \in Outcomes :
        /\ Received(Call(r, "getUser", 0, NoVal, NoVal, res, NoVal), res # "ok")
        /\ IF res = "throw"
           THEN /\ Abort(r, "getUser failed")
                /\ UNCHANGED <<user, userRole>>
           ELSE LET usr == IF res = "ok" THEN session ELSE NoUser
                IN  /\ user' = [user EXCEPT ![r] = usr]
                    /\ IF ~Falsy(usr.id)
                       THEN /\ pc' = [pc EXCEPT ![r] = "selectUser"]
                            /\ UNCHANGED <<userRole, i, teacherId, errors, successCount>>
                       ELSE Gate(r, usr)
    /\ UNCHANGED <<session, storeVars, courses>>
    /\ UNCHANGED otherVars

\* await supabase.from('users').select('role').eq('id', user.id).single():
\* the answer is logged only
SelectUser(r) ==
    /\ pc[r] = "selectUser"
    /\ \E res \in Outcomes :
        /\ Received(Call(r, "selectUser", 0, user[r].id, NoVal, res, NoVal), res # "ok")
        /\ IF res = "throw"
           THEN /\ Abort(r, "users query failed")
                /\ UNCHANGED userRole
           ELSE Gate(r, user[r])
    /\ UNCHANGED <<session, storeVars, courses, user>>
    /\ UNCHANGED otherVars

\* the result of the duplicate check ignored
DuplicateCodeIgnored(r) ==
    Resume(r, IF Falsy(courses[r][i[r]].teacherId) /\ ~Falsy(courses[r][i[r]].teacher)
              THEN "checkTeacher" ELSE "insertCourse",
           i[r], courses[r][i[r]].teacherId, errors[r], successCount[r])

\* if (existingCourse) { errors.push(...); continue; }
DuplicateCode(r) ==
    NextRow(r, Append(errors[r], AlreadyExists(i[r], Row(r).code)), successCount[r])

\* the teacher looked up by name even when the row supplies an id
ResolveTeacherAlwaysByName(r) ==
    Resume(r, IF ~Falsy(Row(r).teacher) THEN "checkTeacher" ELSE "insertCourse",
           i[r], Row(r).teacherId, errors[r], successCount[r])

\* let teacherId = course.teacherId; if (!teacherId && course.teacher) ...
ResolveTeacher(r) ==
    Resume(r, IF Falsy(Row(r).teacherId) /\ ~Falsy(Row(r).teacher)
              THEN "checkTeacher" ELSE "insertCourse",
           i[r], Row(r).teacherId, errors[r], successCount[r])

\* the error of the duplicate check ignored
CheckErrorIgnored(r) == ResolveTeacher(r)

\* if (checkError) throw new Error(...)
CheckErrorThrown(r) == RowCatch(r, "Error checking for existing course")

\* await supabase.from('courses').select('id, code').eq('code', course.code).maybeSingle()
SelectCourse(r) ==
    /\ pc[r] = "selectCourse"
    /\ \E res \in Outcomes :
        LET found == CoursesWithCode(Row(r).code)
            checkError == res = "error" \/ (res = "ok" /\ Cardinality(found) > 1)
            existingCourse == found # {}
        IN  /\ Received(Call(r, "selectCourse", i[r], Row(r).code, NoVal,
                             IF checkError THEN "error" ELSE res,
                             IF existingCourse THEN "found" ELSE "none"), res # "ok")
            /\ IF res = "throw" THEN RowCatch(r, "exception")
               ELSE IF checkError THEN CheckErrorThrown(r)
               ELSE IF existingCourse THEN DuplicateCode(r)
               ELSE ResolveTeacher(r)
    /\ UNCHANGED <<session, storeVars, courses, user, userRole>>
    /\ UNCHANGED otherVars

\* await checkTeacherNameExists(course.teacher); a failed lookup reads as
\* "not found"
CheckTeacher(r) ==
    /\ pc[r] = "checkTeacher"
    /\ \E res \in Outcomes \ {"throw"} :
        LET teacherExists == res = "ok" /\ checkTeacherNameExists(Row(r).teacher)
        IN  /\ Received(Call(r, "checkTeacher", i[r], Row(r).teacher, NoVal, res,
                             IF teacherExists THEN "found" ELSE "none"), res # "ok")
            /\ Resume(r, IF teacherExists THEN "selectTeacher" ELSE "insertTeacher",
                      i[r], teacherId[r], errors[r], successCount[r])
    /\ UNCHANGED <<session, storeVars, courses, user, userRole>>
    /\ UNCHANGED otherVars

\* the new teacher's id not taken over
TeacherInsertedIdDropped(r, newTeacher) ==
    Resume(r, "insertCourse", i[r], teacherId[r],
           Append(errors[r], TeacherCreated(i[r], Row(r).code)), successCount[r])

\* teacherId = newTeacher.id; errors.push({... isWarning: true, isSuccess: true})
TeacherInserted(r, newTeacher) ==
    Resume(r, "insertCourse", i[r], newTeacher.id,
           Append(errors[r], TeacherCreated(i[r], Row(r).code)), successCount[r])

\* the failed teacher insert thrown to the row's catch
TeacherInsertFailedSkipsRow(r, message) == RowCatch(r, message)

\* the teacherError branch and the catch around the teacher insert
TeacherInsertFailed(r, message) ==
    Resume(r, "insertCourse", i[r], teacherId[r],
           Append(errors[r], TeacherNotCreated(i[r], Row(r).code, message)),
           successCount[r])

\* await supabase.from('teachers').insert({...}).select().single()
InsertTeacher(r) ==
    /\ pc[r] = "insertTeacher"
    /\ \E res \in Outcomes :
        LET department == IF ~Falsy(Row(r).section) THEN Row(r).section
                          ELSE IF ~Falsy(user[r].sectionId) THEN user[r].sectionId
                          ELSE NoVal
            newTeacher == [id |-> NewTeacherId, name |-> Row(r).teacher,
                           phone |-> "N/A", department |-> department]
        IN  /\ Received(Call(r, "insertTeacher", i[r], Row(r).teacher, NoVal, res,
                             IF res = "ok" THEN newTeacher.id ELSE NoVal), res # "ok")
            /\ IF res = "ok"
               THEN /\ teacherTable' = teacherTable \cup {newTeacher}
                    /\ TeacherInserted(r, newTeacher)
               ELSE /\ teacherTable' = teacherTable
                    /\ TeacherInsertFailed(r, IF res = "error"
                                              THEN "Warning - Could not create teacher"
                                              ELSE "Warning - Failed to create teacher")
    /\ UNCHANGED <<session, courseTable, courses, user, userRole>>
    /\ UNCHANGED otherVars

\* the fetched teacher's id not taken over
TeacherFetchedIdDropped(r, res, found) ==
    Resume(r, "insertCourse", i[r], teacherId[r], errors[r], successCount[r])

\* the failed id fetch thrown to the row's catch
TeacherFetchEscalates(r, res, found) ==
    IF res = "ok" /\ Cardinality(found) <= 1
    THEN Resume(r, "insertCourse", i[r],
                IF Cardinality(found) = 1 THEN (CHOOSE t \in found : TRUE).id
                ELSE teacherId[r],
                errors[r], successCount[r])
    ELSE RowCatch(r, "Error fetching existing teacher")

\* the three ends of the id fetch: an id assigned, or the failure logged
TeacherFetched(r, res, found) ==
    Resume(r, "insertCourse", i[r],
           IF res = "ok" /\ Cardinality(found) = 1
           THEN (CHOOSE t \in found : TRUE).id ELSE teacherId[r],
           errors[r], successCount[r])

\* await supabase.from('teachers').select('id').ilike('name', course.teacher).maybeSingle()
SelectTeacher(r) ==
    /\ pc[r] = "selectTeacher"
    /\ \E res \in Outcomes :
        LET found == TeachersNamed(Row(r).teacher)
            teacherFetchError == res = "error" \/ (res = "ok" /\ Cardinality(found) > 1)
        IN  /\ Received(Call(r, "selectTeacher", i[r], Row(r).teacher, NoVal,
                             IF teacherFetchError THEN "error" ELSE res,
                             IF found # {} THEN "found" ELSE "none"), res # "ok")
            /\ TeacherFetched(r, res, found)
    /\ UNCHANGED <<session, storeVars, courses, user, userRole>>
    /\ UNCHANGED otherVars

\* the insert failure passed over without an outcome
InsertRejectedSilently(r) == NextRow(r, errors[r], successCount[r])

\* the insert failure thrown out of the loop
InsertRejectedAborts(r) == Abort(r, "store error")

\* if (error) { errors.push({message, details}); continue; }
InsertRejected(r) ==
    NextRow(r, Append(errors[r], RowError(i[r], Row(r).code, "store error")),
            successCount[r])

\* the inserted row left out of the count
InsertedNotCounted(r) == NextRow(r, errors[r], successCount[r])

\* successCount++
Inserted(r) == NextRow(r, errors[r], successCount[r] + 1)

\* await supabase.from('courses').insert({...}).select().single()
InsertCourse(r) ==
    /\ pc[r] = "insertCourse"
    /\ \E res \in Outcomes :
        LET section == IF ~Falsy(Row(r).section) THEN Row(r).section
                       ELSE user[r].sectionId
            data == [id |-> NewCourseId, code |-> Row(r).code, teacher |-> Row(r).teacher,
                     class_time |-> formattedClassTimes(Row(r)),
                     section |-> section, teacher_id |-> teacherId[r]]
            violation == UniqueViolation(Row(r).code)
            error == res = "error" \/ (res = "ok" /\ violation)
        IN  /\ Received(Call(r, "insertCourse", i[r], Row(r).code, teacherId[r],
                             IF error THEN "error" ELSE res,
                             IF violation THEN "unique_violation" ELSE data.id), res # "ok")
            /\ IF res = "throw"
               THEN /\ courseTable' = courseTable
                    /\ RowCatch(r, "exception")
               ELSE IF error
               THEN /\ courseTable' = courseTable
                    /\ InsertRejected(r)
               ELSE /\ courseTable' = courseTable \cup {data}
                    /\ Inserted(r)
    /\ UNCHANGED <<session, teacherTable, courses, user, userRole>>
    /\ UNCHANGED otherVars

\* ------------------------------------------------------------------ spec
InitCourseTables ==
    {{}, {[id |-> "C1", code |-> "CSE101", teacher |-> NoVal, class_time |-> "",
           section |-> NoVal, teacher_id |-> NoVal]}}

InitTeacherTables ==
    {{}, {[id |-> "T1", name |-> "dr. x", phone |-> "N/A", department |-> NoVal]}}

\* no bulk import called yet, no request sent yet
ImportIdle ==
    /\ calls = <<>>
    /\ faults = 0
    /\ pc = [r \in Runs |-> "idle"]
    /\ courses = [r \in Runs |-> <<>>]
    /\ i = [r \in Runs |-> 0]
    /\ user = [r \in Runs |-> NoUser]
    /\ userRole = [r \in Runs |-> NoVal]
    /\ teacherId = [r \in Runs |-> NoVal]
    /\ errors = [r \in Runs |-> <<>>]
    /\ successCount = [r \in Runs |-> 0]

\* no course written or read yet
CodecIdle ==
    /\ classTimes = <<>>
    /\ writer = NoVal
    /\ class_time = NoVal
    /\ decoded = <<>>

\* createCourse not called yet
CreateIdle ==
    /\ createPc = "idle"
    /\ newCourse = [code |-> "CSE101", section |-> NoVal, teacher |-> NoVal,
                    classTimes |-> <<>>]
    /\ created = <<>>
    /\ createError = NoVal

\* no study material stored, none asked for
MaterialIdle ==
    /\ materialTable = <<>>
    /\ materialOp = "idle"
    /\ returnedMaterials = <<>>
    /\ materialError = NoVal

\* the hook's state before its first render
NoHookUser == [id |-> NoVal, role |-> NoVal]

NoQuery == [op |-> NoVal, res |-> NoVal]

TaskOps == {"checkSession", "checkSession.updateUserState",
            "handleAuthChange.updateUserState", "loginUser", "logoutUser"}

\* a call of login that waits on its users query holds the user loginUser
\* returned
Tasks ==
    [op : TaskOps, role : {NoVal}]
    \cup [op : {"login.select"}, role : {"user", "admin", "super-admin"}]

NoTasks == [t \in Tasks |-> 0]

NoStorage == [remember_me |-> NoVal, saved_email |-> NoVal]

\* login was never called
NoLogin == [rememberMe |-> FALSE, email |-> NoVal]

\* the hook is not mounted
AuthIdle ==
    /\ authUsers = {}
    /\ usersTable = {}
    /\ hookUser = NoHookUser
    /\ loading = TRUE
    /\ authError = NoVal
    /\ localStorage = NoStorage
    /\ tasks = NoTasks
    /\ lastQuery = NoQuery
    /\ lastLogin = NoLogin

\* no dashboard mounted
DashboardIdle ==
    /\ props = [users |-> <<>>, tasks |-> <<>>, isSectionAdmin |-> FALSE, sectionId |-> NoVal]
    /\ rendered = FALSE
    /\ filteredTasks = <<>>

\* the parts of the program the bulk import does not run
OthersIdle == CodecIdle /\ CreateIdle /\ MaterialIdle /\ AuthIdle /\ DashboardIdle

Init ==
    /\ session \in Sessions
    /\ courseTable \in InitCourseTables
    /\ teacherTable \in InitTeacherTables
    /\ ImportIdle
    /\ OthersIdle

Step(r) ==
    \/ bulkImportCourses(r)
    \/ GetUser(r)
    \/ SelectUser(r)
    \/ SelectCourse(r)
    \/ CheckTeacher(r)
    \/ InsertTeacher(r)
    \/ SelectTeacher(r)
    \/ InsertCourse(r)

Next == \E r \in SingleRun : Step(r)

Spec == Init /\ [][Next]_vars

\* One import under any session over a store that holds the course CSE101 and
\* no teacher, so that a batch meets a stored code and a new one, an absent
\* teacher and, on a later row, the teacher an earlier row created.
FairInit ==
    /\ session \in Sessions
    /\ courseTable = {[id |-> "C1", code |-> "CSE101", teacher |-> NoVal, class_time |-> "",
                       section |-> NoVal, teacher_id |-> NoVal]}
    /\ teacherTable = {}
    /\ ImportIdle
    /\ OthersIdle

\* every request of the import gets its answer: a result, an error or a
\* rejection
FairSpec == FairInit /\ [][Next]_vars /\ WF_vars(Next)

\* the shape of the state: the locals of each run and the two tables
TypeOK ==
    /\ session \in Sessions
    /\ \A c \in courseTable : c.code \in Codes
    /\ \A t \in teacherTable : ~Falsy(t.name) /\ t.phone = "N/A"
    /\ faults \in 0..MaxFaults
    /\ \A k \in DOMAIN calls : calls[k].res \in {"ok", "error", "throw"}
    /\ \A r \in Runs :
        /\ pc[r] \in {"idle", "getUser", "selectUser", "selectCourse", "checkTeacher",
                      "insertTeacher", "selectTeacher", "insertCourse", "done"}
        /\ courses[r] \in Batches
        /\ i[r] \in 0..(Len(courses[r]) + 1)
        /\ user[r] \in Sessions
        /\ userRole[r] \in SessionRoles
        /\ teacherId[r] = NoVal \/ ~Falsy(teacherId[r])
        /\ successCount[r] \in 0..Len(courses[r])
        /\ Len(errors[r]) <= 2 * Len(courses[r]) + 1

\* ------------------------------------------------------------------ two imports at once
\* Two calls of bulkImportCourses of one admin session, their requests
\* interleaved at the store.  The batches are made of two complete rows of the
\* section, one naming a teacher and one not; the courses table starts empty,
\* so every code is new.
RacingRow(code, teacher) ==
    [code |-> code, section |-> "A", teacher |-> teacher, teacherId |-> NoVal,
     classTimes |-> <<[day |-> "Mon", time |-> "10:00", classroom |-> "R1"]>>]

RacingBatches ==
    {<<RacingRow("CSE101", "Dr. X")>>,
     <<RacingRow("CSE101", NoVal), RacingRow("CSE102", NoVal)>>}

ConcurrentInit ==
    /\ session = [id |-> "U1", role |-> "admin", sectionId |-> NoVal]
    /\ courseTable = {}
    /\ teacherTable \in InitTeacherTables
    /\ ImportIdle
    /\ OthersIdle

ConcurrentStep(r) ==
    \/ bulkImportCourses(r) /\ courses'[r] \in RacingBatches
    \/ GetUser(r)
    \/ SelectUser(r)
    \/ SelectCourse(r)
    \/ CheckTeacher(r)
    \/ InsertTeacher(r)
    \/ SelectTeacher(r)
    \/ InsertCourse(r)

ConcurrentNext == \E r \in Runs : ConcurrentStep(r)

ConcurrentSpec == ConcurrentInit /\ [][ConcurrentNext]_vars

\* ------------------------------------------------------------------ the schedule codec on its own
MaxEntries == 2

\* ClassTimeEntry values: with a classroom, without one, with an empty one, with
\* a field that ends in a word of a delimiter, with a field that holds a delimiter
ClassTimeEntries ==
    {[day |-> "Mon", time |-> "10:00", classroom |-> "R1"],
     [day |-> "Tue", time |-> "9:30"],
     [day |-> "Wed", time |-> "8 in", classroom |-> "R2"],
     [day |-> "Thu", time |-> "11:00", classroom |-> ""],
     [day |-> "Fri", time |-> "1 at 2"]}

ClassTimeInputs == UNION {[1..n -> ClassTimeEntries] : n \in 0..MaxEntries}

\* the courses row a writer's request comes back with
WrittenRow(str) ==
    [id |-> "C1", code |-> "CSE101", teacher |-> NoVal, class_time |-> str, section |-> NoVal]

\* no session, empty tables
StoreIdle ==
    /\ session = NoUser
    /\ courseTable = {}
    /\ teacherTable = {}

CodecInit ==
    /\ StoreIdle
    /\ ImportIdle
    /\ CreateIdle
    /\ MaterialIdle
    /\ AuthIdle
    /\ DashboardIdle
    /\ classTimes \in ClassTimeInputs
    /\ writer = NoVal
    /\ class_time = NoVal
    /\ decoded = <<>>

\* createCourse formats the class times, inserts, and returns mapCourseFromDB(data)
createCourseWrites ==
    /\ writer = NoVal
    /\ LET formatted == createCourseEncoding([classTimes |-> classTimes])
       IN  /\ class_time' = formatted
           /\ decoded' = <<mapCourseFromDB(WrittenRow(formatted)).classTimes>>
    /\ writer' = "createCourse"
    /\ UNCHANGED <<classTimes, outsideCodec>>

\* bulkImportCourses formats the class times and inserts; it returns no course
bulkImportWrites ==
    /\ writer = NoVal
    /\ class_time' = formattedClassTimes([classTimes |-> classTimes])
    /\ writer' = "bulkImportCourses"
    /\ UNCHANGED <<classTimes, decoded, outsideCodec>>

\* updateCourse on the written course, with or without classTimes among the
\* updates: a class_time left undefined leaves the column as it is; it returns
\* mapCourseFromDB(data)
updateCourseWrites ==
    /\ writer # NoVal
    /\ \E updates \in {[classTimes |-> cts] : cts \in ClassTimeInputs} \cup {[name |-> "Algorithms"]} :
        LET formatted == updateCourseEncoding(updates)
            column == IF formatted = NoVal THEN class_time ELSE formatted
        IN  /\ classTimes' = IF "classTimes" \in DOMAIN updates THEN updates.classTimes
                             ELSE classTimes
            /\ class_time' = column
            /\ decoded' = <<mapCourseFromDB(WrittenRow(column)).classTimes>>
    /\ writer' = "updateCourse"
    /\ UNCHANGED outsideCodec

\* fetchCourses: data.map(course => mapCourseFromDB(course))
fetchCoursesReads ==
    /\ writer # NoVal
    /\ decoded' = <<mapCourseFromDB(WrittenRow(class_time)).classTimes>>
    /\ UNCHANGED <<classTimes, writer, class_time, outsideCodec>>

CodecNext ==
    \/ createCourseWrites
    \/ bulkImportWrites
    \/ updateCourseWrites
    \/ fetchCoursesReads

CodecSpec == CodecInit /\ [][CodecNext]_vars

\* ------------------------------------------------------------------ createCourse
\* the section check left out
createCourseSectionNeverMissing(role, course) == FALSE

\* if (userRole === 'section_admin' && !course.section)
createCourseSectionMissing(role, course) == role = "section_admin" /\ Falsy(course.section)

\* if (!userRole || (userRole !== 'admin' && userRole !== 'section_admin'))
createCourseDenied(role) == Falsy(role) \/ (role # "admin" /\ role # "section_admin")

\* the candidates of createCourse: with a section, with an empty one, without
CreateCandidates ==
    [code : Codes, section : Sections \cup {"", NoVal}, teacher : {"Dr. X"},
     classTimes : ClassTimeLists]

\* throw, and the catch that logs and rethrows
createCourseThrows(message) ==
    /\ createPc' = "rejected"
    /\ createError' = message
    /\ UNCHANGED created

CreateInit ==
    /\ session \in Sessions
    /\ courseTable \in InitCourseTables
    /\ teacherTable = {}
    /\ ImportIdle
    /\ CodecIdle
    /\ MaterialIdle
    /\ AuthIdle
    /\ DashboardIdle
    /\ createPc = "idle"
    /\ newCourse \in CreateCandidates
    /\ created = <<>>
    /\ createError = NoVal

\* the call, up to the first request
createCourse ==
    /\ createPc = "idle"
    /\ createPc' = "getUser"
    /\ UNCHANGED <<newCourse, created, createError, session, courseTable, calls, faults,
                   outsideCreate>>

\* await supabase.auth.getUser(), the two checks and the formatting
createCourseGetUser ==
    /\ createPc = "getUser"
    /\ \E res \in Outcomes :
        LET usr == IF res = "ok" THEN session ELSE NoUser
        IN  /\ Received(Call("createCourse", "getUser", 0, NoVal, NoVal, res, NoVal), res # "ok")
            /\ IF res = "throw" THEN createCourseThrows("getUser failed")
               ELSE IF createCourseDenied(usr.role)
               THEN createCourseThrows(
                        "Permission denied: Only admins and section admins can create courses")
               ELSE IF createCourseSectionMissing(usr.role, newCourse)
               THEN createCourseThrows("Section admin must specify a section for the course")
               ELSE /\ createPc' = "insert"
                    /\ UNCHANGED <<created, createError>>
    /\ UNCHANGED <<newCourse, session, courseTable, outsideCreate>>

\* await supabase.from('courses').insert({...}).select().single()
createCourseInsert ==
    /\ createPc = "insert"
    /\ \E res \in Outcomes :
        LET data == [id |-> NewCourseId, code |-> newCourse.code, teacher |-> newCourse.teacher,
                     class_time |-> createCourseEncoding(newCourse),
                     section |-> newCourse.section, teacher_id |-> NoVal]
            violation == UniqueViolation(newCourse.code)
            failed == res = "error" \/ (res = "ok" /\ violation)
        IN  /\ Received(Call("createCourse", "insertCourse", 0, newCourse.code, NoVal,
                             IF failed THEN "error" ELSE res,
                             IF violation THEN "unique_violation" ELSE data.id), res # "ok")
            /\ IF res = "throw"
               THEN /\ courseTable' = courseTable
                    /\ createCourseThrows("exception")
               ELSE IF failed
               THEN /\ courseTable' = courseTable
                    /\ createCourseThrows("Failed to create course: store error")
               ELSE /\ courseTable' = courseTable \cup {data}
                    /\ createPc' = "returned"
                    /\ created' = <<mapCourseFromDB(data)>>
                    /\ UNCHANGED createError
    /\ UNCHANGED <<newCourse, session, outsideCreate>>

CreateNext ==
    \/ createCourse
    \/ createCourseGetUser
    \/ createCourseInsert

CreateSpec == CreateInit /\ [][CreateNext]_vars

\* ------------------------------------------------------------------ vocabulary of the properties
\* ------------------------------------------------------------------
\* Study materials: createStudyMaterial, updateStudyMaterial and
\* fetchStudyMaterials, each one request to the store and the mapping of what
\* the store returns.  The joined course of a material is left out.
MaxFiles == 2
MaxMaterials == 2

\* the id the store gives the next material
NewMaterialId == "M" \o ToString(Len(materialTable) + 1)

\* the ids a caller may name: those the store can hold, and one it never holds
MaterialIds == {"M" \o ToString(n) : n \in 1..(MaxMaterials + 1)}

Files(name, n) == [k \in 1..n |-> name]

FileUrlLists == {Files("https://files/f.pdf", n) : n \in 0..MaxFiles}

FileNameLists == {Files("f.pdf", n) : n \in 0..MaxFiles}

\* NewStudyMaterial: both lists are given
NewStudyMaterials == [fileUrls : FileUrlLists, originalFileNames : FileNameLists]

\* Partial<StudyMaterial>: any field may be missing
StudyMaterialUpdates ==
    {[title |-> "Week 1"]}
    \cup [fileUrls : FileUrlLists]
    \cup [originalFileNames : FileNameLists]
    \cup [fileUrls : FileUrlLists, originalFileNames : FileNameLists]

\* material.file_urls || []: a null column is a field the row does not have
OrEmpty(row, name) == IF name \in DOMAIN row THEN row[name] ELSE <<>>

\* the object literal the three functions build from a row
StudyMaterialFromDB(data) ==
    [id |-> data.id,
     fileUrls |-> OrEmpty(data, "file_urls"),
     originalFileNames |-> OrEmpty(data, "original_file_names")]

\* .update({...}): a field that is undefined is not sent, its column stays
UpdatedColumn(row, column, updates, name) ==
    IF name \in DOMAIN updates THEN updates[name] ELSE row[column]

UpdatedRow(row, updates) ==
    [id |-> row.id,
     file_urls |-> UpdatedColumn(row, "file_urls", updates, "fileUrls"),
     original_file_names |-> UpdatedColumn(row, "original_file_names", updates,
                                           "originalFileNames")]

Reverse(seq) == [k \in 1..Len(seq) |-> seq[Len(seq) + 1 - k]]

\* catch (error) { console.error(...); throw error; }
MaterialThrows(op, message) ==
    /\ materialOp' = op
    /\ materialError' = message
    /\ returnedMaterials' = <<>>
    /\ materialTable' = materialTable

MaterialReturns(op, materials) ==
    /\ materialOp' = op
    /\ materialError' = NoVal
    /\ returnedMaterials' = materials

MaterialInit ==
    /\ StoreIdle
    /\ ImportIdle
    /\ OthersIdle

\* createStudyMaterial(material)
createStudyMaterial ==
    /\ Len(materialTable) < MaxMaterials
    /\ \E material \in NewStudyMaterials : \E res \in {"ok", "error"} :
        LET data == [id |-> NewMaterialId,
                     file_urls |-> material.fileUrls,
                     original_file_names |-> material.originalFileNames]
        IN  IF res = "error"
            THEN MaterialThrows("createStudyMaterial", "Failed to create study material")
            ELSE /\ materialTable' = Append(materialTable, data)
                 /\ MaterialReturns("createStudyMaterial", <<StudyMaterialFromDB(data)>>)
    /\ UNCHANGED outsideMaterial

\* updateStudyMaterial(id, updates); .single() fails when no row has the id
updateStudyMaterial ==
    /\ \E id \in MaterialIds : \E updates \in StudyMaterialUpdates :
       \E res \in {"ok", "error"} :
        LET found == {k \in DOMAIN materialTable : materialTable[k].id = id}
        IN  IF res = "error" \/ found = {}
            THEN MaterialThrows("updateStudyMaterial", "store error")
            ELSE LET k == CHOOSE j \in found : TRUE
                     data == UpdatedRow(materialTable[k], updates)
                 IN  /\ materialTable' = [materialTable EXCEPT ![k] = data]
                     /\ MaterialReturns("updateStudyMaterial",
                                        <<StudyMaterialFromDB(data)>>)
    /\ UNCHANGED outsideMaterial

\* fetchStudyMaterials(): newest first
fetchStudyMaterials ==
    /\ \E res \in {"ok", "error"} :
        IF res = "error"
        THEN MaterialThrows("fetchStudyMaterials", "store error")
        ELSE /\ materialTable' = materialTable
             /\ MaterialReturns("fetchStudyMaterials",
                                [k \in 1..Len(materialTable) |->
                                    StudyMaterialFromDB(Reverse(materialTable)[k])])
    /\ UNCHANGED outsideMaterial

MaterialNext ==
    \/ createStudyMaterial
    \/ updateStudyMaterial
    \/ fetchStudyMaterials

MaterialSpec == MaterialInit /\ [][MaterialNext]_vars

\* ------------------------------------------------------------------
\* useAuth: one mounted hook and one account.  Each function of the hook is
\* one action per await; what runs after `await updateUserState(...)` in the
\* caller is taken with the end of updateUserState.  signup and
\* forgotPassword are left out.
MaxTasks == 2

Email == "a@nesttask.com"

\* the addresses login is called with; the account is the one the credentials
\* name
Emails == {Email, "b@nesttask.com"}

\* the role column of the account's row; the row may be missing
UsersTableRoles == {"user", "admin", "super-admin", "", NoVal}

\* the calls waiting on an await
Pending == {t \in Tasks : tasks[t] > 0}

RECURSIVE Count(_)
Count(ts) == IF ts = {} THEN 0
             ELSE LET t == CHOOSE x \in ts : TRUE IN tasks[t] + Count(ts \ {t})

Waiting(op) == \E t \in Pending : t.op = op

Task(op) == [op |-> op, role |-> NoVal]

Started(t) == [tasks EXCEPT ![t] = @ + 1]

Moved(from, to) == [tasks EXCEPT ![from] = @ - 1, ![to] = @ + 1]

Finished(t) == [tasks EXCEPT ![t] = @ - 1]

\* .from('users').select('*').eq('id', id).single(): the rows with the id
UserRows(id) == {u \in usersTable : u.id = id}

\* the answer of the users query: data is the row when exactly one row has
\* the id and the request went through, else data is null and error is set
UserQuery(id, res) ==
    IF res = "ok" /\ Cardinality(UserRows(id)) = 1
    THEN [res |-> "ok", data |-> CHOOSE u \in UserRows(id) : TRUE]
    ELSE [res |-> IF res = "throw" THEN "throw" ELSE "error", data |-> NoHookUser]

\* the metadata role first, the users-table role second
updateUserStateRoleMetadataFirst(userData, authUser) ==
    IF ~Falsy(authUser.role) THEN authUser.role
    ELSE IF ~Falsy(userData.role) THEN userData.role
    ELSE "user"

\* const role = userData?.role || authUser.user_metadata?.role || 'user'
updateUserStateRole(userData, authUser) ==
    IF ~Falsy(userData.role) THEN userData.role
    ELSE IF ~Falsy(authUser.role) THEN authUser.role
    ELSE "user"

\* if (userData.role) { user.role = userData.role }
loginRole(userData, role) == IF ~Falsy(userData.role) THEN userData.role ELSE role

\* login: if (rememberMe) { setItem(REMEMBER_ME_KEY, 'true');
\* setItem(SAVED_EMAIL_KEY, credentials.email) } else { removeItem both }
loginStorage(rememberMe, email) ==
    IF rememberMe THEN [remember_me |-> "true", saved_email |-> email]
    ELSE NoStorage

\* the saved email removed whatever "remember me" says
logoutStorageAlwaysClears(storage) == [storage EXCEPT !.saved_email = NoVal]

\* logout: if (getItem(REMEMBER_ME_KEY) !== 'true') removeItem(SAVED_EMAIL_KEY)
logoutStorage(storage) ==
    IF storage.remember_me # "true" THEN [storage EXCEPT !.saved_email = NoVal]
    ELSE storage

\* the account whose session an event or getSession hands to the hook
Account == CHOOSE a \in authUsers : TRUE

SignedIn == session # NoUser

AuthInit ==
    /\ authUsers \in {{a} : a \in Sessions \ {NoUser}}
    /\ usersTable \in {{}} \cup {{[id |-> "U1", role |-> ro]} : ro \in UsersTableRoles}
    /\ session \in {NoUser} \cup authUsers
    /\ courseTable = {}
    /\ teacherTable = {}
    /\ ImportIdle
    /\ CodecIdle
    /\ CreateIdle
    /\ MaterialIdle
    /\ DashboardIdle
    /\ hookUser = NoHookUser
    /\ loading = TRUE
    /\ authError = NoVal
    /\ localStorage = NoStorage
    /\ tasks = [NoTasks EXCEPT ![Task("checkSession")] = 1]
    /\ lastQuery = NoQuery
    /\ lastLogin = NoLogin

\* the flag left as it is when checkSession ends without updateUserState
checkSessionFinallyKeepsLoading ==
    /\ loading' = loading
    /\ tasks' = Finished(Task("checkSession"))

\* checkSession: finally { setLoading(false) }
checkSessionFinally ==
    /\ loading' = FALSE
    /\ tasks' = Finished(Task("checkSession"))

\* checkSession: await supabase.auth.getSession()
checkSession ==
    /\ Waiting("checkSession")
    /\ \E res \in {"ok", "throw"} :
        IF res = "throw"
        THEN /\ authError' = "Failed to check authentication status"
             /\ checkSessionFinally
        ELSE IF SignedIn
        THEN /\ tasks' = Moved(Task("checkSession"), Task("checkSession.updateUserState"))
             /\ UNCHANGED <<authError, loading>>
        ELSE /\ checkSessionFinally
             /\ UNCHANGED authError
    /\ UNCHANGED <<session, authUsers, usersTable, hookUser, localStorage, lastQuery, lastLogin>>
    /\ UNCHANGED outsideAuth

\* handleAuthChange(_event, session): the auth client reports its session
handleAuthChange ==
    /\ IF SignedIn
       THEN /\ Count(Tasks) < MaxTasks
            /\ tasks' = Started(Task("handleAuthChange.updateUserState"))
            /\ UNCHANGED <<hookUser, loading>>
       ELSE /\ hookUser' = NoHookUser
            /\ loading' = FALSE
            /\ UNCHANGED tasks
    /\ UNCHANGED <<session, authUsers, usersTable, authError, localStorage, lastQuery, lastLogin>>
    /\ UNCHANGED outsideAuth

\* updateUserState(authUser): the users query is answered; the caller then
\* sets loading to false
updateUserStateFor(caller) ==
    /\ \E res \in Outcomes :
        LET t == Task(caller \o ".updateUserState")
            authUser == Account
            answer == UserQuery(authUser.id, res)
            userData == answer.data
            role == updateUserStateRole(userData, authUser)
        IN  /\ tasks[t] > 0
            /\ tasks' = Finished(t)
            /\ lastQuery' = [op |-> "updateUserState", res |-> answer.res]
            /\ IF answer.res = "throw"
               THEN /\ authError' = "Failed to update user information"
                    /\ UNCHANGED hookUser
               ELSE /\ hookUser' = [id |-> authUser.id, role |-> role]
                    /\ UNCHANGED authError
            /\ loading' = FALSE
    /\ UNCHANGED <<session, authUsers, usersTable, localStorage, lastLogin>>
    /\ UNCHANGED outsideAuth

\* updateUserState as awaited by checkSession or by handleAuthChange
updateUserState ==
    \E caller \in {"checkSession", "handleAuthChange"} : updateUserStateFor(caller)

\* login(credentials, rememberMe), up to await loginUser(credentials)
login ==
    /\ Count(Tasks) < MaxTasks
    /\ \E rememberMe \in BOOLEAN : \E email \in Emails :
        /\ localStorage' = loginStorage(rememberMe, email)
        /\ lastLogin' = [rememberMe |-> rememberMe, email |-> email]
    /\ authError' = NoVal
    /\ tasks' = Started(Task("loginUser"))
    /\ UNCHANGED <<session, authUsers, usersTable, hookUser, loading, lastQuery>>
    /\ UNCHANGED outsideAuth

\* const user = await loginUser(credentials): the account is signed in and a
\* user is returned, or the call throws
loginUser ==
    /\ Waiting("loginUser")
    /\ \E res \in {"ok", "throw"} : \E role \in {"user", "admin", "super-admin"} :
        IF res = "throw"
        THEN /\ authError' = "Invalid login credentials"
             /\ tasks' = Finished(Task("loginUser"))
             /\ UNCHANGED session
        ELSE /\ session' = Account
             /\ tasks' = Moved(Task("loginUser"), [op |-> "login.select", role |-> role])
             /\ UNCHANGED authError
    /\ UNCHANGED <<authUsers, usersTable, hookUser, loading, localStorage, lastQuery, lastLogin>>
    /\ UNCHANGED outsideAuth

\* login: the users query after loginUser is answered; setUser(user)
loginSelect ==
    /\ \E t \in Pending : \E res \in Outcomes :
        LET answer == UserQuery(Account.id, res)
        IN  /\ t.op = "login.select"
            /\ tasks' = Finished(t)
            /\ lastQuery' = [op |-> "login", res |-> answer.res]
            /\ IF answer.res = "throw"
               THEN /\ authError' = "exception"
                    /\ UNCHANGED hookUser
               ELSE /\ hookUser' = [id |-> Account.id,
                                    role |-> IF answer.res = "ok"
                                             THEN loginRole(answer.data, t.role)
                                             ELSE t.role]
                    /\ UNCHANGED authError
    /\ UNCHANGED <<session, authUsers, usersTable, loading, localStorage, lastLogin>>
    /\ UNCHANGED outsideAuth

\* logout(), up to await logoutUser()
logout ==
    /\ Count(Tasks) < MaxTasks
    /\ authError' = NoVal
    /\ hookUser' = NoHookUser
    /\ tasks' = Started(Task("logoutUser"))
    /\ UNCHANGED <<session, authUsers, usersTable, loading, localStorage, lastQuery, lastLogin>>
    /\ UNCHANGED outsideAuth

\* await logoutUser(): the session is ended and the saved email is kept only
\* under "remember me", or the call throws
logoutUser ==
    /\ Waiting("logoutUser")
    /\ tasks' = Finished(Task("logoutUser"))
    /\ \E res \in {"ok", "throw"} :
        IF res = "throw"
        THEN /\ authError' = "exception"
             /\ UNCHANGED <<session, localStorage>>
        ELSE /\ session' = NoUser
             /\ localStorage' = logoutStorage(localStorage)
             /\ UNCHANGED authError
    /\ UNCHANGED <<authUsers, usersTable, hookUser, loading, lastQuery, lastLogin>>
    /\ UNCHANGED outsideAuth

AuthNext ==
    \/ checkSession
    \/ handleAuthChange
    \/ updateUserState
    \/ login
    \/ loginUser
    \/ loginSelect
    \/ logout
    \/ logoutUser

AuthSpec == AuthInit /\ [][AuthNext]_vars

\* useAuth(): useState(true) for loading, then the effect calls checkSession().
\* The account is a user by its metadata, with or without a row in users, and
\* the auth client holds its session or none.
MountInit ==
    /\ authUsers = {[id |-> "U1", role |-> "user", sectionId |-> NoVal]}
    /\ usersTable \in {{}, {[id |-> "U1", role |-> "admin"]}}
    /\ session \in {NoUser} \cup authUsers
    /\ courseTable = {}
    /\ teacherTable = {}
    /\ ImportIdle
    /\ CodecIdle
    /\ CreateIdle
    /\ MaterialIdle
    /\ DashboardIdle
    /\ hookUser = NoHookUser
    /\ loading = TRUE
    /\ authError = NoVal
    /\ localStorage = NoStorage
    /\ tasks = [NoTasks EXCEPT ![Task("checkSession")] = 1]
    /\ lastQuery = NoQuery
    /\ lastLogin = NoLogin

\* getSession and the users query awaited by checkSession are answered
MountSpec ==
    /\ MountInit
    /\ [][AuthNext]_vars
    /\ WF_vars(checkSession)
    /\ WF_vars(updateUserStateFor("checkSession"))

\* The hook mounted in a browser whose local storage was left by an earlier
\* visit: by a login with "remember me", or by one without it or none at all.
\* The account is an admin by its metadata and by its row.
RememberInit ==
    /\ authUsers = {[id |-> "U1", role |-> "admin", sectionId |-> NoVal]}
    /\ usersTable = {[id |-> "U1", role |-> "admin"]}
    /\ session \in {NoUser} \cup authUsers
    /\ courseTable = {}
    /\ teacherTable = {}
    /\ ImportIdle
    /\ CodecIdle
    /\ CreateIdle
    /\ MaterialIdle
    /\ DashboardIdle
    /\ hookUser = NoHookUser
    /\ loading = TRUE
    /\ authError = NoVal
    /\ lastLogin \in {NoLogin} \cup [rememberMe : BOOLEAN, email : Emails]
    /\ localStorage = loginStorage(lastLogin.rememberMe, lastLogin.email)
    /\ tasks = [NoTasks EXCEPT ![Task("checkSession")] = 1]
    /\ lastQuery = NoQuery

RememberSpec == RememberInit /\ [][AuthNext]_vars

\* ------------------------------------------------------------------
\* AdminDashboard: the filteredTasks memo, computed at a render from the props
\* of that render.
MaxTaskList == 2

DashboardSections == {"A", "B"}

\* User: name and section
DashboardUsers == {<<>>,
                   <<[name |-> "Ann", sectionId |-> "A"]>>,
                   <<[name |-> "Bob", sectionId |-> "B"]>>,
                   <<[name |-> "Ann", sectionId |-> "A"], [name |-> "Bob", sectionId |-> "B"]>>}

\* Task: the fields the filter reads
DashboardTasks ==
    [sectionId : DashboardSections \cup {NoVal}, isAdminTask : BOOLEAN,
     name : {"Quiz 1", "Report of Ann"}, description : {"Read chapter 2", "For Bob"}]

TaskLists == UNION {[1..n -> DashboardTasks] : n \in 0..MaxTaskList}

AdminDashboardProps ==
    [users : DashboardUsers, tasks : TaskLists, isSectionAdmin : BOOLEAN,
     sectionId : {"A", NoVal}]

\* tasks.filter(...): the elements that pass, in their order
RECURSIVE Filter(_, _, _)
Filter(seq, users, sectionId) ==
    IF seq = <<>> THEN <<>>
    ELSE LET task == Head(seq)
             \* if (task.sectionId === sectionId) return true;
             \* return users.some(u => u.sectionId === sectionId && (task.isAdminTask
             \*   || task.description.includes(u.name) || task.name.includes(u.name)))
             keep == \/ task.sectionId = sectionId
                     \/ \E k \in DOMAIN users :
                            /\ users[k].sectionId = sectionId
                            /\ \/ task.isAdminTask
                               \/ Includes(task.description, users[k].name)
                               \/ Includes(task.name, users[k].name)
         IN  (IF keep THEN <<task>> ELSE <<>>) \o Filter(Tail(seq), users, sectionId)

\* const filteredTasks = useMemo(() => {...}, [tasks, isSectionAdmin, sectionId, users])
FilteredTasks(p) ==
    IF ~p.isSectionAdmin \/ Falsy(p.sectionId) THEN p.tasks
    ELSE Filter(p.tasks, p.users, p.sectionId)

DashboardInit ==
    /\ StoreIdle
    /\ ImportIdle
    /\ CodecIdle
    /\ CreateIdle
    /\ MaterialIdle
    /\ AuthIdle
    /\ props \in AdminDashboardProps
    /\ rendered = FALSE
    /\ filteredTasks = <<>>

\* a render of AdminDashboard
AdminDashboard ==
    /\ ~rendered
    /\ rendered' = TRUE
    /\ filteredTasks' = FilteredTasks(props)
    /\ UNCHANGED props
    /\ UNCHANGED outsideDashboard

DashboardNext == AdminDashboard

DashboardSpec == DashboardInit /\ [][DashboardNext]_vars

\* ------------------------------------------------------------------
\* The hook and the two course gates under one session: a signed-in account,
\* the mounted hook that works out the role it shows, one bulk import (of an
\* empty list, which runs the gate and nothing else) and one createCourse.
GateInit ==
    /\ authUsers \in {{a} : a \in Sessions \ {NoUser}}
    /\ usersTable \in {{}} \cup {{[id |-> "U1", role |-> ro]} : ro \in UsersTableRoles}
    /\ session \in authUsers
    /\ courseTable = {}
    /\ teacherTable = {}
    /\ ImportIdle
    /\ CodecIdle
    /\ createPc = "idle"
    /\ newCourse \in {c \in CreateCandidates : c.code = "CSE101" /\ c.section = "A"}
    /\ created = <<>>
    /\ createError = NoVal
    /\ MaterialIdle
    /\ DashboardIdle
    /\ hookUser = NoHookUser
    /\ loading = TRUE
    /\ authError = NoVal
    /\ localStorage = NoStorage
    /\ tasks = [NoTasks EXCEPT ![Task("checkSession")] = 1]
    /\ lastQuery = NoQuery
    /\ lastLogin = NoLogin

\* bulkImportCourses([])
bulkImportNothing ==
    /\ bulkImportCourses("run1")
    /\ courses'["run1"] = <<>>

GateNext ==
    \/ checkSession
    \/ updateUserState
    \/ bulkImportNothing
    \/ GetUser("run1")
    \/ SelectUser("run1")
    \/ createCourse
    \/ createCourseGetUser
    \/ createCourseInsert

GateSpec == GateInit /\ [][GateNext]_vars

Done(r) == pc[r] = "done"

Rows(r) == 1..Len(courses[r])

\* the gate was passed: the report holds no batch-level outcome
GatePassed(r) == Done(r) /\ \A k \in DOMAIN errors[r] : errors[r][k].row # 0

Hard(r) == {k \in DOMAIN errors[r] : ~errors[r][k].isWarning}

Soft(r) == {k \in DOMAIN errors[r] : errors[r][k].isWarning}

RowHard(r, row) == {k \in Hard(r) : errors[r][k].row = row}

RowSoft(r, row) == {k \in Soft(r) : errors[r][k].row = row}

CallsOf(r, ops) == {k \in DOMAIN calls : calls[k].run = r /\ calls[k].op \in ops}

RowCalls(r, row, ops) == {k \in CallsOf(r, ops) : calls[k].row = row}

OkInserts(r) == {k \in CallsOf(r, {"insertCourse"}) : calls[k].res = "ok"}

TeacherOps == {"checkTeacher", "insertTeacher", "selectTeacher"}

RowOps == TeacherOps \cup {"selectCourse", "insertCourse"}

Stored(code) == \E c \in courseTable : c.code = code

\* ------------------------------------------------------------------ C1
\* C1: when the session role is absent or is neither admin nor section_admin,
\* a finished bulkImportCourses reports success = 0 and exactly one outcome,
\* a hard error, and at no moment has the store received a course insert or a
\* teacher insert from the run, whatever the candidate list is.
C1_UnauthorizedBatchAborts ==
    \A r \in Runs :
        session.role \notin {"admin", "section_admin"} =>
            /\ CallsOf(r, {"insertCourse", "insertTeacher"}) = {}
            /\ successCount[r] = 0
            /\ Done(r) => /\ Len(errors[r]) = 1
                          /\ ~errors[r][1].isWarning
                          /\ errors[r][1].row = 0

C1_Witness ==
    \E r \in Runs :
        /\ Done(r)
        /\ session.id # NoVal
        /\ session.role = NoVal
        /\ Len(courses[r]) = 2
        /\ Len(errors[r]) = 1

\* ------------------------------------------------------------------ C2
\* the rows whose course insert did not succeed
FailedInserts(r) ==
    {calls[k].row : k \in {k \in CallsOf(r, {"insertCourse"}) : calls[k].res # "ok"}}

\* The case of C2: an authorized role, every row complete (with a section for a
\* section admin), pairwise distinct codes that the duplicate check found new,
\* and no failure other than failures of course inserts.
OnlyInsertsFail(r) ==
    /\ session.role \in {"admin", "section_admin"}
    /\ \A row \in Rows(r) :
        /\ "classTimes" \in DOMAIN courses[r][row]
        /\ session.role = "section_admin" => courses[r][row].section # NoVal
    /\ \A a, b \in Rows(r) : a # b => courses[r][a].code # courses[r][b].code
    /\ \A k \in CallsOf(r, {"getUser", "selectUser"} \cup TeacherOps) : calls[k].res = "ok"
    /\ \A k \in CallsOf(r, {"selectCourse"}) : calls[k].res = "ok" /\ calls[k].data = "none"

\* C2: with an authorized role and n candidates of distinct new codes, when the
\* store fails the course insert of exactly the rows F and nothing else fails,
\* the finished run reports success = n - |F| and exactly one hard error per row
\* of F, carrying that row's index and code, every row has had its insert sent,
\* and every row outside F is in the courses table.
C2_InsertFailureStaysInRow ==
    \A r \in Runs :
        (Done(r) /\ OnlyInsertsFail(r)) =>
            /\ \A row \in Rows(r) : Cardinality(RowCalls(r, row, {"insertCourse"})) = 1
            /\ successCount[r] = Len(courses[r]) - Cardinality(FailedInserts(r))
            /\ Cardinality(Hard(r)) = Cardinality(FailedInserts(r))
            /\ \A row \in FailedInserts(r) :
                \E k \in Hard(r) : /\ errors[r][k].row = row
                                   /\ errors[r][k].code = courses[r][row].code
            /\ \A row \in Rows(r) \ FailedInserts(r) : Stored(courses[r][row].code)

C2_Witness ==
    \E r \in Runs :
        /\ Done(r)
        /\ OnlyInsertsFail(r)
        /\ Len(courses[r]) = 2
        /\ FailedInserts(r) = {1}
        /\ successCount[r] = 1
        /\ Stored(courses[r][2].code)

\* ------------------------------------------------------------------ C3
\* C3 as stated: whichever request of a row raises an exception, the row ends
\* with a hard error.
C3_EveryExceptionIsHardError ==
    \A r \in Runs :
        Done(r) =>
            \A k \in CallsOf(r, RowOps) :
                calls[k].res = "throw" => RowHard(r, calls[k].row) # {}

\* C3 amended: an exception raised by the encoding, the duplicate check or the
\* course insert of a row is caught at that row and recorded as exactly one
\* hard error carrying the row's index and code; an exception raised by the
\* teacher insert is caught inside teacher resolution and recorded as a soft
\* warning, one raised by the teacher id fetch is only logged, and in both
\* cases the row goes on to its course insert, which alone can give the row a
\* hard error; no exception of a row stops the loop: once the gate is passed
\* every candidate is processed.
C3_RowExceptionsAreContained ==
    \A r \in Runs :
        Done(r) =>
            /\ \A k \in CallsOf(r, {"selectCourse", "insertCourse"}) :
                calls[k].res = "throw" =>
                    /\ Cardinality(RowHard(r, calls[k].row)) = 1
                    /\ \A e \in RowHard(r, calls[k].row) :
                        errors[r][e].code = courses[r][calls[k].row].code
            /\ \A row \in Rows(r) :
                (GatePassed(r) /\ "classTimes" \notin DOMAIN courses[r][row]
                 /\ ~(session.role = "section_admin" /\ courses[r][row].section = NoVal)) =>
                    /\ Cardinality(RowHard(r, row)) = 1
                    /\ \A e \in RowHard(r, row) : errors[r][e].code = courses[r][row].code
                    /\ RowCalls(r, row, RowOps) = {}
            /\ \A k \in CallsOf(r, {"insertTeacher", "selectTeacher"}) :
                calls[k].res = "throw" =>
                    /\ Cardinality(RowCalls(r, calls[k].row, {"insertCourse"})) = 1
                    /\ RowHard(r, calls[k].row) # {} =>
                        \E c \in RowCalls(r, calls[k].row, {"insertCourse"}) :
                            calls[c].res # "ok"
                    /\ calls[k].op = "insertTeacher" =>
                        Cardinality(RowSoft(r, calls[k].row)) = 1
                    /\ calls[k].op = "selectTeacher" => RowSoft(r, calls[k].row) = {}
            /\ GatePassed(r) =>
                \A row \in Rows(r) :
                    \/ RowCalls(r, row, {"selectCourse"}) # {}
                    \/ RowHard(r, row) \cup RowSoft(r, row) # {}

C3_Witness ==
    \E r \in Runs :
        /\ Done(r)
        /\ Len(courses[r]) = 2
        /\ \E k \in RowCalls(r, 1, {"selectCourse"}) : calls[k].res = "throw"
        /\ \E k \in RowCalls(r, 2, {"insertCourse"}) : calls[k].res = "ok"
        /\ Cardinality(Hard(r)) = 1
        /\ successCount[r] = 1

\* ------------------------------------------------------------------ C4
\* C4: a row whose code the duplicate check finds in the courses table ends
\* with exactly one hard error, the "already exists" outcome of that row and
\* code; a row whose duplicate check returns a store error ends with exactly
\* one hard error too.  In both cases no teacher lookup, teacher insert or
\* course insert is sent for the row, and the success count stays the number
\* of course inserts that succeeded.
C4_DuplicateCodeIsHardError ==
    \A r \in Runs :
        Done(r) =>
            /\ \A k \in CallsOf(r, {"selectCourse"}) :
                LET row == calls[k].row
                IN  /\ (calls[k].res = "ok" /\ calls[k].data = "found") =>
                        \A e \in RowHard(r, row) :
                            errors[r][e] = AlreadyExists(row, courses[r][row].code)
                    /\ ((calls[k].res = "ok" /\ calls[k].data = "found")
                            \/ calls[k].res = "error") =>
                        /\ Cardinality(RowHard(r, row)) = 1
                        /\ RowSoft(r, row) = {}
                        /\ RowCalls(r, row, TeacherOps \cup {"insertCourse"}) = {}
            /\ successCount[r] = Cardinality(OkInserts(r))

C4_Witness ==
    \E r \in Runs :
        /\ Done(r)
        /\ Len(courses[r]) = 2
        /\ \E k \in RowCalls(r, 1, {"selectCourse"}) :
            calls[k].res = "ok" /\ calls[k].data = "found"
        /\ \E k \in RowCalls(r, 2, {"selectCourse"}) : calls[k].res = "error"
        /\ Cardinality(Hard(r)) = 2
        /\ successCount[r] = 0

\* ------------------------------------------------------------------ C5
\* C5: when a section admin's run is done, a row without a section has exactly
\* one outcome, the section warning (isWarning set, so no hard error), the
\* store has received no request for the row, so the row is not inserted and
\* not counted, and the rows after it were processed: every row has an outcome
\* or has had its duplicate check sent.
C5_SectionlessRowIsSkipped ==
    \A r \in Runs :
        (Done(r) /\ userRole[r] = "section_admin") =>
            /\ \A row \in Rows(r) :
                courses[r][row].section = NoVal =>
                    /\ Cardinality(RowSoft(r, row)) = 1
                    /\ \A e \in RowSoft(r, row) :
                        errors[r][e].isWarning /\ ~errors[r][e].isSuccess
                    /\ RowHard(r, row) = {}
                    /\ RowCalls(r, row, RowOps) = {}
            /\ successCount[r] = Cardinality(OkInserts(r))
            /\ \A row \in Rows(r) :
                \/ RowCalls(r, row, {"selectCourse"}) # {}
                \/ RowHard(r, row) \cup RowSoft(r, row) # {}

C5_Witness ==
    \E r \in Runs :
        /\ Done(r)
        /\ userRole[r] = "section_admin"
        /\ Len(courses[r]) = 2
        /\ courses[r][1].section = NoVal
        /\ courses[r][2].section # NoVal
        /\ successCount[r] = 1
        /\ Len(errors[r]) = 1

\* ------------------------------------------------------------------ C6
\* the row names a teacher and supplies no teacher id
ByName(r, row) == courses[r][row].teacher # NoVal /\ courses[r][row].teacherId = NoVal

\* C6: for a row that names a teacher without an id, when the existence check
\* finds no teacher of that name and the teacher insert succeeds, then after
\* the import: the teachers table holds a teacher with that name and the new
\* id, the report holds exactly one soft warning for the row, the one noting
\* the creation, the course insert of the row was sent with the new id, and
\* when that insert succeeded the stored course has the new id as teacher_id
\* and the row is counted in success.
C6_NewTeacherIsCreatedAndLinked ==
    \A r \in Runs :
        Done(r) =>
            /\ \A k \in CallsOf(r, {"insertTeacher"}) :
                LET row == calls[k].row
                    course == courses[r][row]
                IN  (calls[k].res = "ok"
                     /\ \E c \in RowCalls(r, row, {"checkTeacher"}) :
                            calls[c].res = "ok" /\ calls[c].data = "none") =>
                        /\ ByName(r, row)
                        /\ \E t \in teacherTable :
                            t.id = calls[k].data /\ t.name = course.teacher
                        /\ Cardinality(RowSoft(r, row)) = 1
                        /\ \A e \in RowSoft(r, row) :
                            errors[r][e] = TeacherCreated(row, course.code)
                        /\ Cardinality(RowCalls(r, row, {"insertCourse"})) = 1
                        /\ \A c \in RowCalls(r, row, {"insertCourse"}) :
                            /\ calls[c].teacher_id = calls[k].data
                            /\ calls[c].res = "ok" =>
                                /\ RowHard(r, row) = {}
                                /\ \E d \in courseTable : /\ d.code = course.code
                                                          /\ d.teacher_id = calls[k].data
            /\ successCount[r] = Cardinality(OkInserts(r))

C6_Witness ==
    \E r \in Runs :
        /\ Done(r)
        /\ Len(courses[r]) = 1
        /\ ByName(r, 1)
        /\ \E k \in RowCalls(r, 1, {"insertTeacher"}) : calls[k].res = "ok"
        /\ \E c \in RowCalls(r, 1, {"insertCourse"}) : calls[c].res = "ok"
        /\ successCount[r] = 1
        /\ Len(errors[r]) = 1
        /\ \E d \in courseTable : \E t \in teacherTable :
            d.teacher_id = t.id /\ t.name = courses[r][1].teacher

\* ------------------------------------------------------------------ C7
\* C7: when the teacher insert of a row fails (a store error or an exception),
\* the row gets exactly one soft warning, which is not the creation notice,
\* the course insert is sent all the same and carries no teacher id, a hard
\* error of the row can only come from that insert failing, and when the insert
\* succeeds the course is stored without teacher id and counted in success.
C7_TeacherCreationFailureIsSoft ==
    \A r \in Runs :
        Done(r) =>
            /\ \A k \in CallsOf(r, {"insertTeacher"}) :
                LET row == calls[k].row
                    course == courses[r][row]
                IN  calls[k].res # "ok" =>
                        /\ Cardinality(RowSoft(r, row)) = 1
                        /\ \A e \in RowSoft(r, row) : ~errors[r][e].isSuccess
                        /\ Cardinality(RowCalls(r, row, {"insertCourse"})) = 1
                        /\ \A c \in RowCalls(r, row, {"insertCourse"}) :
                            /\ calls[c].teacher_id = NoVal
                            /\ calls[c].res = "ok" =>
                                /\ RowHard(r, row) = {}
                                /\ \E d \in courseTable : /\ d.code = course.code
                                                          /\ d.teacher_id = NoVal
                        /\ RowHard(r, row) # {} =>
                            \E c \in RowCalls(r, row, {"insertCourse"}) : calls[c].res # "ok"
            /\ successCount[r] = Cardinality(OkInserts(r))

C7_Witness ==
    \E r \in Runs :
        /\ Done(r)
        /\ Len(courses[r]) = 1
        /\ \E k \in RowCalls(r, 1, {"insertTeacher"}) : calls[k].res = "error"
        /\ \E c \in RowCalls(r, 1, {"insertCourse"}) : calls[c].res = "ok"
        /\ successCount[r] = 1
        /\ Cardinality(Soft(r)) = 1
        /\ \E d \in courseTable : d.code = courses[r][1].code /\ d.teacher_id = NoVal

\* ------------------------------------------------------------------ C8
\* C8: a failed teacher existence check reads as "not found", so the teacher
\* insert follows; a failed teacher id fetch leaves the row without teacher id
\* and without outcome.  Neither gives the row a hard error: the course insert
\* of the row is sent, and a hard error of the row can only come from that
\* insert failing.
C8_TeacherLookupFailureIsNotEscalated ==
    \A r \in Runs :
        Done(r) =>
            /\ \A k \in CallsOf(r, {"checkTeacher"}) :
                LET row == calls[k].row
                IN  calls[k].res # "ok" =>
                        /\ Cardinality(RowCalls(r, row, {"insertTeacher"})) = 1
                        /\ RowCalls(r, row, {"selectTeacher"}) = {}
            /\ \A k \in CallsOf(r, {"selectTeacher"}) :
                LET row == calls[k].row
                IN  calls[k].res # "ok" =>
                        /\ \A c \in RowCalls(r, row, {"insertCourse"}) :
                            calls[c].teacher_id = NoVal
                        /\ RowSoft(r, row) = {}
            /\ \A k \in CallsOf(r, {"checkTeacher", "selectTeacher"}) :
                calls[k].res # "ok" =>
                    /\ Cardinality(RowCalls(r, calls[k].row, {"insertCourse"})) = 1
                    /\ RowHard(r, calls[k].row) # {} =>
                        \E c \in RowCalls(r, calls[k].row, {"insertCourse"}) :
                            calls[c].res # "ok"

C8_Witness ==
    \E r \in Runs :
        /\ Done(r)
        /\ Len(courses[r]) = 2
        /\ \E k \in RowCalls(r, 1, {"selectTeacher"}) : calls[k].res = "throw"
        /\ \E c \in RowCalls(r, 1, {"insertCourse"}) :
            calls[c].res = "ok" /\ calls[c].teacher_id = NoVal
        /\ Hard(r) = {}
        /\ successCount[r] = 2

\* ------------------------------------------------------------------ C9
SameName(a, b) == Lower(calls[a].arg) = Lower(calls[b].arg)

\* C9: within one run and with no other writer, the requests reach the store
\* row after row, and a teacher inserted for a row that found the name absent
\* is seen by every later row naming that teacher: when the later row's
\* existence check is answered it finds the teacher, the row sends its id fetch
\* and no teacher insert, and when the id fetch is answered the row's course
\* insert carries the id of that teacher; and when no teacher request of the
\* run fails, at most one teacher insert is sent per name.
C9_CreatedTeacherIsSeenByLaterRows ==
    \A r \in Runs :
        /\ \A a, b \in CallsOf(r, RowOps) : a < b => calls[a].row <= calls[b].row
        /\ Done(r) =>
            /\ \A a \in CallsOf(r, {"insertTeacher"}) :
                (calls[a].res = "ok"
                 /\ \E c \in RowCalls(r, calls[a].row, {"checkTeacher"}) :
                        calls[c].res = "ok" /\ calls[c].data = "none") =>
                    /\ \A b \in CallsOf(r, {"checkTeacher"}) :
                        (b > a /\ SameName(a, b) /\ calls[b].res = "ok") =>
                            /\ calls[b].data = "found"
                            /\ RowCalls(r, calls[b].row, {"insertTeacher"}) = {}
                            /\ Cardinality(RowCalls(r, calls[b].row, {"selectTeacher"})) = 1
                    /\ \A f \in CallsOf(r, {"selectTeacher"}) :
                        (f > a /\ SameName(a, f) /\ calls[f].res = "ok") =>
                            /\ Cardinality(RowCalls(r, calls[f].row, {"insertCourse"})) = 1
                            /\ \A c \in RowCalls(r, calls[f].row, {"insertCourse"}) :
                                calls[c].teacher_id = calls[a].data
            /\ (\A k \in CallsOf(r, TeacherOps) : calls[k].res = "ok") =>
                \A a, b \in CallsOf(r, {"insertTeacher"}) : SameName(a, b) => a = b

C9_Witness ==
    \E r \in Runs :
        /\ Done(r)
        /\ Len(courses[r]) = 2
        /\ ByName(r, 1) /\ ByName(r, 2)
        /\ \A k \in CallsOf(r, TeacherOps) : calls[k].res = "ok"
        /\ Cardinality(CallsOf(r, {"insertTeacher"})) = 1
        /\ Cardinality(teacherTable) = 1
        /\ successCount[r] = 2
        /\ \A d \in courseTable : \A t \in teacherTable : d.teacher_id = t.id

\* ------------------------------------------------------------------ C10
\* C10: within one run and with no other writer, a course insert is never
\* waiting for, and has never been sent for, a code that is in the courses
\* table, so no insert hits the unique constraint; a later row whose code an
\* earlier row of the batch inserted gets the "already exists" hard error when
\* its duplicate check is answered; and no two stored courses share a code.
C10_PreCheckKeepsCodesUnique ==
    \A r \in Runs :
        /\ pc[r] = "insertCourse" => ~Stored(courses[r][i[r]].code)
        /\ \A c, d \in courseTable : c.code = d.code => c = d
        /\ Done(r) =>
            /\ \A k \in CallsOf(r, {"insertCourse"}) : calls[k].data # "unique_violation"
            /\ \A a \in OkInserts(r) :
                \A b \in CallsOf(r, {"selectCourse"}) :
                    (b > a /\ calls[b].arg = calls[a].arg /\ calls[b].res = "ok") =>
                        /\ calls[b].data = "found"
                        /\ \E e \in RowHard(r, calls[b].row) :
                            errors[r][e] = AlreadyExists(calls[b].row, calls[b].arg)
                        /\ RowCalls(r, calls[b].row, {"insertCourse"}) = {}

C10_Witness ==
    \E r \in Runs :
        /\ Done(r)
        /\ Len(courses[r]) = 2
        /\ courses[r][1].code = courses[r][2].code
        /\ \E a \in OkInserts(r) : calls[a].row = 1
        /\ \E e \in RowHard(r, 2) : errors[r][e] = AlreadyExists(2, courses[r][2].code)
        /\ successCount[r] = 1
        /\ Cardinality(courseTable) = 1

\* ------------------------------------------------------------------ C11
\* the course inserts the store refused for a code it already holds
Collisions(r) ==
    {k \in CallsOf(r, {"insertCourse"}) :
        calls[k].res = "error" /\ calls[k].data = "unique_violation"}

\* C11: when two bulkImportCourses runs interleave over a store that enforces
\* unique codes, at most one course insert succeeds per code, whichever run
\* sent it; a run whose insert meets the constraint, its duplicate check having
\* found the code new, ends with exactly one hard error for that row, the
\* insert failure with the row's code; its batch is not aborted, the rows after
\* it are processed, and its success count is the number of its own inserts
\* that succeeded, so the row is not counted.
C11_CollisionIsAnOrdinaryInsertFailure ==
    /\ \A c, d \in courseTable : c.code = d.code => c = d
    /\ \A a, b \in DOMAIN calls :
        (calls[a].op = "insertCourse" /\ calls[b].op = "insertCourse"
         /\ calls[a].res = "ok" /\ calls[b].res = "ok" /\ calls[a].arg = calls[b].arg) => a = b
    /\ \A r \in Runs :
        Done(r) =>
            /\ successCount[r] = Cardinality(OkInserts(r))
            /\ \A k \in Collisions(r) :
                LET row == calls[k].row
                IN  /\ \E c \in RowCalls(r, row, {"selectCourse"}) :
                        c < k /\ calls[c].res = "ok" /\ calls[c].data = "none"
                    /\ Cardinality(RowHard(r, row)) = 1
                    /\ \A e \in RowHard(r, row) :
                        errors[r][e] = RowError(row, courses[r][row].code, "store error")
                    /\ GatePassed(r)
                    /\ \A later \in Rows(r) :
                        later > row => RowCalls(r, later, {"selectCourse"}) # {}
                    /\ \A o \in OkInserts(r) : calls[o].row # row

C11_Witness ==
    /\ Done("run1") /\ Done("run2")
    /\ Len(courses["run1"]) = 2 /\ Len(courses["run2"]) = 1
    /\ courses["run1"][1].code = courses["run2"][1].code
    /\ \E a \in RowCalls("run1", 1, {"selectCourse"}) :
       \E b \in RowCalls("run2", 1, {"selectCourse"}) :
        /\ calls[a].res = "ok" /\ calls[a].data = "none"
        /\ calls[b].res = "ok" /\ calls[b].data = "none"
    /\ \E o \in OkInserts("run2") : calls[o].row = 1
    /\ \E k \in Collisions("run1") : calls[k].row = 1
    /\ successCount["run1"] = 1 /\ successCount["run2"] = 1
    /\ Cardinality(Hard("run1")) = 1
    /\ Cardinality(courseTable) = 2
    /\ faults = 0

\* ------------------------------------------------------------------ C12
\* C12 as stated: an import of no candidates reports no outcome, whatever the
\* session role is.
C12_EmptyBatchReportsNothing ==
    \A r \in Runs :
        (Done(r) /\ courses[r] = <<>>) => successCount[r] = 0 /\ errors[r] = <<>>

\* C12 amended: an import of no candidates sends no request for a row and
\* reports success 0; it reports no outcome when the session role is admin or
\* section_admin and the user lookups before the gate are answered, and it
\* reports exactly one outcome, the hard error of the batch abort, when the
\* session role is absent or another role.
C12_EmptyBatchStillMeetsTheGate ==
    \A r \in Runs :
        (Done(r) /\ courses[r] = <<>>) =>
            /\ successCount[r] = 0
            /\ CallsOf(r, RowOps) = {}
            /\ (session.role \in {"admin", "section_admin"}
                /\ \A k \in CallsOf(r, {"getUser", "selectUser"}) : calls[k].res = "ok") =>
                    errors[r] = <<>>
            /\ session.role \notin {"admin", "section_admin"} =>
                    /\ Len(errors[r]) = 1
                    /\ errors[r][1].row = 0
                    /\ ~errors[r][1].isWarning

C12_Witness ==
    \E r \in Runs :
        /\ Done(r)
        /\ courses[r] = <<>>
        /\ session.role = "section_admin"
        /\ Cardinality(CallsOf(r, {"getUser", "selectUser"})) = 2
        /\ errors[r] = <<>>
        /\ successCount[r] = 0

\* ------------------------------------------------------------------ C13
Delimiters == {", ", " at ", " in "}

FieldsOf(ct) ==
    {ct.day, ct.time} \cup (IF "classroom" \in DOMAIN ct THEN {ct.classroom} ELSE {})

\* no field of an entry contains a delimiter
DelimiterFree(cts) ==
    \A k \in DOMAIN cts : \A v \in FieldsOf(cts[k]) : \A d \in Delimiters : ~Includes(v, d)

\* The encoding rule of the specification, piece by piece: the fields of an
\* entry and the delimiters between them, the classroom and its delimiter when
\* the entry has a non-empty classroom, ", " between entries.
EntryPieces(ct) ==
    <<[text |-> ct.day, sep |-> FALSE], [text |-> " at ", sep |-> TRUE],
      [text |-> ct.time, sep |-> FALSE]>> \o
    (IF "classroom" \in DOMAIN ct /\ ct.classroom # ""
     THEN <<[text |-> " in ", sep |-> TRUE], [text |-> ct.classroom, sep |-> FALSE]>>
     ELSE <<>>)

RECURSIVE Pieces(_)
Pieces(cts) ==
    IF cts = <<>> THEN <<>>
    ELSE IF Len(cts) = 1 THEN EntryPieces(cts[1])
    ELSE EntryPieces(cts[1]) \o <<[text |-> ", ", sep |-> TRUE]>> \o Pieces(Tail(cts))

RECURSIVE Concat(_)
Concat(ps) == IF ps = <<>> THEN "" ELSE ps[1].text \o Concat(Tail(ps))

\* the places where the rule writes delimiter d
WrittenAt(ps, d) ==
    {Len(Concat(SubSeq(ps, 1, j - 1))) + 1 : j \in {j \in DOMAIN ps : ps[j].sep /\ ps[j].text = d}}

\* the places where d occurs in a string
Occurrences(str, d) ==
    {k \in 1..(Len(str) - Len(d) + 1) : SubSeq(str, k, k + Len(d) - 1) = d}

\* in the encoded string the delimiters occur only where the rule wrote them:
\* no field contains one and none arises where a field meets a delimiter
OnlyWrittenDelimiters(cts) ==
    \A d \in Delimiters : Occurrences(Concat(Pieces(cts)), d) = WrittenAt(Pieces(cts), d)

ClassroomsNonEmpty(cts) ==
    \A k \in DOMAIN cts : "classroom" \in DOMAIN cts[k] => cts[k].classroom # ""

\* C13 as stated: whenever no field of the written entries contains a
\* delimiter, the class times read back are the class times written.
C13_RoundTripOfDelimiterFreeEntries ==
    (decoded # <<>> /\ DelimiterFree(classTimes)) => decoded[1] = classTimes

\* C13 amended: for a non-empty sequence of entries whose classroom, when
\* present, is not the empty string, and in whose encoded string the delimiters
\* occur only where the encoder wrote them, the class times read back by
\* mapCourseFromDB are exactly the class times written, whichever writer wrote
\* them.
C13_RoundTripOfCleanNonEmptyEntries ==
    (decoded # <<>> /\ classTimes # <<>> /\ ClassroomsNonEmpty(classTimes)
     /\ OnlyWrittenDelimiters(classTimes)) =>
        decoded[1] = classTimes

C13_Witness ==
    /\ writer = "bulkImportCourses"
    /\ classTimes = <<[day |-> "Tue", time |-> "9:30"],
                      [day |-> "Mon", time |-> "10:00", classroom |-> "R1"]>>
    /\ OnlyWrittenDelimiters(classTimes)
    /\ decoded = <<classTimes>>

\* ------------------------------------------------------------------ C14
\* C14: whichever of createCourse, updateCourse (with classTimes among the
\* updates) and bulkImportCourses wrote the class times, the class_time column
\* is the entries in input order joined with ", ", each rendered
\* "<day> at <time>" or, with a non-empty classroom, "<day> at <time> in
\* <classroom>"; the three writers give the same string for the same entries;
\* and the entry Mon, 10:00, R1 is written as "Mon at 10:00 in R1" and read
\* back as that entry.
C14_WritersFollowOneEncodingRule ==
    /\ writer # NoVal => class_time = Concat(Pieces(classTimes))
    /\ createCourseEncoding([classTimes |-> classTimes])
            = formattedClassTimes([classTimes |-> classTimes])
    /\ updateCourseEncoding([classTimes |-> classTimes])
            = createCourseEncoding([classTimes |-> classTimes])
    /\ (writer # NoVal
        /\ classTimes = <<[day |-> "Mon", time |-> "10:00", classroom |-> "R1"]>>) =>
            /\ class_time = "Mon at 10:00 in R1"
            /\ decoded # <<>> => decoded[1] = classTimes

C14_Witness ==
    /\ writer = "updateCourse"
    /\ classTimes = <<[day |-> "Mon", time |-> "10:00", classroom |-> "R1"],
                      [day |-> "Tue", time |-> "9:30"]>>
    /\ class_time = "Mon at 10:00 in R1, Tue at 9:30"
    /\ decoded = <<classTimes>>

\* ------------------------------------------------------------------ C15
\* the rule of the permission gate for a course mutation
GateAllows(role, course) ==
    \/ role = "admin"
    \/ role = "section_admin" /\ course.section \notin {NoVal, ""}

CreateCalls(op) ==
    {k \in DOMAIN calls : calls[k].run = "createCourse" /\ calls[k].op = op}

CreateFinished == createPc \in {"returned", "rejected"}

\* C15: createCourse sends a course insert only when the session role is admin,
\* or section_admin with a non-empty section on the candidate, and then, the
\* session provider having answered, it sends exactly one; for every other
\* role, an absent role, and a section admin's candidate without section, the
\* call ends with an error thrown, the denial when the session provider
\* answered, no insert was sent, no course was returned and the courses table
\* holds only the rows it held before.
C15_InsertOnlyPastTheGate ==
    /\ CreateCalls("insertCourse") # {} => GateAllows(session.role, newCourse)
    /\ (CreateFinished /\ GateAllows(session.role, newCourse)
        /\ \A k \in CreateCalls("getUser") : calls[k].res = "ok") =>
            Cardinality(CreateCalls("insertCourse")) = 1
    /\ (CreateFinished /\ ~GateAllows(session.role, newCourse)) =>
            /\ createPc = "rejected"
            /\ CreateCalls("insertCourse") = {}
            /\ created = <<>>
            /\ courseTable \in InitCourseTables
            /\ (\A k \in CreateCalls("getUser") : calls[k].res = "ok") =>
                createError \in
                    {"Permission denied: Only admins and section admins can create courses",
                     "Section admin must specify a section for the course"}

C15_Witness ==
    /\ createPc = "rejected"
    /\ session.role = "section_admin"
    /\ newCourse.section = ""
    /\ createError = "Section admin must specify a section for the course"
    /\ CreateCalls("insertCourse") = {}
    /\ faults = 0

\* ------------------------------------------------------------------ C16
\* C16: every call of bulkImportCourses, whatever the candidate list, the
\* session and the failures of its requests (the user lookup included), ends
\* by returning its report, the success count and the list of outcomes; it
\* ends in no other way.
C16_ImportAlwaysReturnsItsReport ==
    /\ [](\A r \in SingleRun :
            pc[r] \in {"idle", "getUser", "selectUser", "selectCourse", "checkTeacher",
                       "insertTeacher", "selectTeacher", "insertCourse", "done"})
    /\ \A r \in SingleRun :
        (pc[r] # "idle") ~> (Done(r) /\ successCount[r] \in 0..Len(courses[r])
                                    /\ Len(errors[r]) \in 0..(2 * Len(courses[r]) + 1))

C16_Witness ==
    \E r \in SingleRun :
        /\ Done(r)
        /\ Len(courses[r]) = 2
        /\ \E k \in CallsOf(r, {"getUser"}) : calls[k].res = "throw"
        /\ successCount[r] = 0
        /\ Len(errors[r]) = 1

\* ------------------------------------------------------------------ C18
\* the row supplies a teacher id
ById(r, row) == ~Falsy(courses[r][row].teacherId)

\* C18: for a row that supplies a teacher id, at every moment of the import:
\* the run has sent no teacher existence check, no teacher insert and no
\* teacher id lookup for the row, the report holds no soft (teacher-related)
\* outcome of the row, every course insert of the row was sent with the
\* supplied id, and when that insert succeeded the stored course of that code
\* has the supplied id as teacher_id.
C18_SuppliedTeacherIdIsUsedAsIs ==
    \A r \in Runs : \A row \in Rows(r) :
        ById(r, row) =>
            /\ RowCalls(r, row, TeacherOps) = {}
            /\ RowSoft(r, row) = {}
            /\ \A c \in RowCalls(r, row, {"insertCourse"}) :
                /\ calls[c].teacher_id = courses[r][row].teacherId
                /\ calls[c].res = "ok" =>
                    \E d \in courseTable : /\ d.id = calls[c].data
                                            /\ d.code = courses[r][row].code
                                            /\ d.teacher_id = courses[r][row].teacherId

\* a finished one-row import whose row names a teacher unknown to the store
\* and supplies an id: the course is stored with that id
C18_Witness ==
    \E r \in Runs :
        /\ Done(r)
        /\ Len(courses[r]) = 1
        /\ ById(r, 1)
        /\ courses[r][1].teacher = "Dr. X"
        /\ teacherTable = {}
        /\ successCount[r] = 1
        /\ errors[r] = <<>>
        /\ \E d \in courseTable : d.teacher_id = courses[r][1].teacherId

\* ------------------------------------------------------------------ C17
\* C17: every StudyMaterial returned by createStudyMaterial,
\* updateStudyMaterial or fetchStudyMaterials, after any sequence of create and
\* update calls, has as many fileUrls as originalFileNames.
C17_FileListsStayParallel ==
    \A k \in DOMAIN returnedMaterials :
        Len(returnedMaterials[k].fileUrls) = Len(returnedMaterials[k].originalFileNames)

\* ------------------------------------------------------------------ C19
\* the account's row in the users table has the role super-admin
IsSuperAdmin == \E u \in UserRows(Account.id) : u.role = "super-admin"

\* C19: for an account whose users-table role is super-admin, whenever the
\* account is signed in and the hook exposes a user, after login and after
\* every session check and auth-state-change refresh, the role the hook
\* exposes is super-admin.
C19_SuperAdminRoleIsKept ==
    (IsSuperAdmin /\ SignedIn /\ hookUser # NoHookUser) => hookUser.role = "super-admin"

\* ------------------------------------------------------------------ C20
\* a call of updateUserState ends in this step
updateUserStateEnds ==
    \E t \in Tasks : /\ t.op \in {"checkSession.updateUserState",
                                   "handleAuthChange.updateUserState"}
                     /\ tasks'[t] < tasks[t]

\* the role of the account's row when the query returned the row
ReturnedRole(answered) ==
    IF answered = "ok" THEN (CHOOSE u \in UserRows(Account.id) : TRUE).role ELSE NoVal

\* C20: when a call of updateUserState ends whose users query was answered,
\* with the row or with an error, the hook's user gets the row's role when the
\* row was returned and its role is not empty, else the role of the auth
\* metadata when that is not empty, else 'user', and the error state is left
\* as it was; the error state is set only when the query throws, and the user
\* is then left as it was.
C20_RoleByFixedPrecedence ==
    [][updateUserStateEnds =>
        LET answered == lastQuery'.res
            dbRole == ReturnedRole(answered)
            metadataRole == Account.role
            role == IF dbRole \notin {NoVal, ""} THEN dbRole
                    ELSE IF metadataRole \notin {NoVal, ""} THEN metadataRole
                    ELSE "user"
        IN  /\ lastQuery'.op = "updateUserState"
            /\ answered \in {"ok", "error"} =>
                /\ hookUser' = [id |-> Account.id, role |-> role]
                /\ authError' = authError
            /\ answered = "throw" =>
                /\ hookUser' = hookUser
                /\ authError' = "Failed to update user information"]_vars

\* the users query of a refresh failed for an account whose row says admin
\* and whose metadata say super-admin: the hook shows the metadata role and no
\* error
C20_Witness ==
    /\ lastQuery = [op |-> "updateUserState", res |-> "error"]
    /\ \E u \in UserRows(Account.id) : u.role = "admin"
    /\ Account.role = "super-admin"
    /\ hookUser = [id |-> Account.id, role |-> "super-admin"]
    /\ authError = NoVal
    /\ loading = FALSE
    /\ Pending = {}

\* ------------------------------------------------------------------ C21
\* a call of logout gets the answer of logoutUser in this step
logoutUserAnswered == tasks'[Task("logoutUser")] < tasks[Task("logoutUser")]

\* C21: at every moment after a call of login, whatever calls of login and
\* logout came before and whatever logouts have completed since, local storage
\* holds a saved email exactly when the latest call of login was made with
\* rememberMe = true, and the saved email is then the email of that call; and
\* a logout that gets its answer leaves the saved email as it is when the
\* remember-me key is 'true' and leaves none otherwise.
C21_SavedEmailFollowsLatestLogin ==
    /\ [](lastLogin # NoLogin =>
            /\ (localStorage.saved_email # NoVal) <=> lastLogin.rememberMe
            /\ lastLogin.rememberMe => localStorage.saved_email = lastLogin.email)
    /\ [][logoutUserAnswered =>
            localStorage'.saved_email = IF localStorage.remember_me = "true"
                                        THEN localStorage.saved_email
                                        ELSE NoVal]_vars

\* a login with "remember me" under the second address went through and a
\* logout has completed since the account was signed in: the address is still
\* saved
C21_Witness ==
    /\ lastLogin = [rememberMe |-> TRUE, email |-> "b@nesttask.com"]
    /\ localStorage = [remember_me |-> "true", saved_email |-> "b@nesttask.com"]
    /\ lastQuery.op = "login"
    /\ session = NoUser
    /\ Pending = {}

\* ------------------------------------------------------------------ C22
\* the elements of a list
Shown(seq) == {seq[k] : k \in DOMAIN seq}

\* C22: after a render, when the viewer is a section admin with a sectionId,
\* every task whose sectionId is the admin's section is in filteredTasks and no
\* task whose sectionId is set to another section is; when the viewer is not a
\* section admin or has no sectionId, filteredTasks is the whole task list.
C22_SectionAdminSeesOnlyOwnSection ==
    rendered =>
        IF props.isSectionAdmin /\ props.sectionId \notin {NoVal, ""}
        THEN /\ \A t \in Shown(props.tasks) :
                    t.sectionId = props.sectionId => t \in Shown(filteredTasks)
             /\ \A t \in Shown(filteredTasks) :
                    t.sectionId \in {NoVal, props.sectionId}
        ELSE filteredTasks = props.tasks

\* ------------------------------------------------------------------ C23
\* the section-missing skip warnings of the report
SectionSkips(r) ==
    {k \in Soft(r) : errors[r][k] = SectionWarning(errors[r][k].row, errors[r][k].code)}

\* the stored courses that an insert of the run put there
InsertedBy(r) == {c \in courseTable : \E k \in OkInserts(r) : calls[k].data = c.id}

\* C23: when an import has finished and its gate was passed, success is the
\* number of courses the run inserted into the store, success plus the number
\* of hard errors plus the number of section-missing warnings is the number of
\* candidates (so the teacher warnings count for nothing), and the outcomes
\* stand in the report in the order of their candidates.
C23_ReportAccountsForEveryRow ==
    \A r \in Runs :
        GatePassed(r) =>
            /\ successCount[r] = Cardinality(OkInserts(r))
            /\ successCount[r] = Cardinality(InsertedBy(r))
            /\ successCount[r] + Cardinality(Hard(r)) + Cardinality(SectionSkips(r))
               = Len(courses[r])
            /\ \A j \in DOMAIN errors[r] : \A k \in DOMAIN errors[r] :
                j < k => errors[r][j].row <= errors[r][k].row

\* a section admin's batch of two: the first row has no section and is
\* skipped, the second names a new teacher and is stored
C23_Witness ==
    \E r \in Runs :
        /\ GatePassed(r)
        /\ Len(courses[r]) = 2
        /\ userRole[r] = "section_admin"
        /\ errors[r] = <<SectionWarning(1, courses[r][1].code),
                         TeacherCreated(2, courses[r][2].code)>>
        /\ successCount[r] = 1
        /\ Cardinality(InsertedBy(r)) = 1

\* ------------------------------------------------------------------ C24
\* C24: an updateUserState whose users query is answered when the account
\* has been signed out in the meantime (logout or the signed-out event has set
\* the user to null while the call was waiting) installs no user: the user of
\* the hook is after that step what it was before it, so that it is null once
\* all calls have finished.
C24_StaleUpdateInstallsNothing ==
    [][(updateUserStateEnds /\ ~SignedIn) => hookUser' = hookUser]_vars

\* ------------------------------------------------------------------ C25
\* the requests the run sent before its gate were all answered
GateReached(r) ==
    /\ \E k \in CallsOf(r, {"getUser"}) : TRUE
    /\ \A k \in CallsOf(r, {"getUser", "selectUser"}) : calls[k].res = "ok"

\* C25: whenever the hook shows the role admin for the signed-in user, a bulk
\* import of the same session that has finished, and whose requests before the
\* gate were answered, has passed its gate, and a createCourse of the same
\* session whose getUser was answered has not been refused for the role.
C25_GatesAgreeWithShownRole ==
    (SignedIn /\ hookUser.id = session.id /\ hookUser.role = "admin") =>
        /\ (Done("run1") /\ GateReached("run1")) => GatePassed("run1")
        /\ GateReached("createCourse") =>
            createError # "Permission denied: Only admins and section admins can create courses"

\* ------------------------------------------------------------------ C26
\* the checkSession of the mount has ended, with or without updateUserState
checkSessionEnded ==
    ~Waiting("checkSession") /\ ~Waiting("checkSession.updateUserState")

\* C26: loading is true when the hook mounts; the checkSession of the mount
\* ends, and whenever it has ended, having found a session, found none or
\* failed, loading is false; loading does become false, and no step of the
\* hook sets it from false to true.
C26_LoadingEndsAndStaysFalse ==
    /\ loading = TRUE
    /\ <>checkSessionEnded
    /\ [](checkSessionEnded => ~loading)
    /\ <>[](~loading)
    /\ [][~loading => ~loading']_vars

\* getSession threw at the mount: the error is set and loading is false
C26_Witness ==
    /\ checkSessionEnded
    /\ authError = "Failed to check authentication status"
    /\ hookUser = NoHookUser
    /\ ~loading

====
